---- MODULE Spec2Model ----
(***************************************************************************)
(* Model of file_utilities.tools.docx_to_written_content: the conversion   *)
(* of a DOCX document (paragraphs of styled runs) into WrittenContent JSX. *)
(*                                                                         *)
(* A Python str is a sequence of one-character strings, so that strip(),   *)
(* re.search(), replace() and "".join() are computed on the characters.    *)
(* A list is a sequence (1-based here, 0-based in the source), a dict is a *)
(* record.  The fixed text of an f-string template is one token.  A         *)
(* character outside the letters, digits and common punctuation is named   *)
(* by its code point: "U+0027" is the apostrophe, "U+0060" the backtick.   *)
(***************************************************************************)
EXTENDS Integers, Sequences, FiniteSets, TLC

(***************************************************************************)
(* Bounds of the model.                                                    *)
(***************************************************************************)
\* longest document (number of paragraphs) drawn by Init
MaxParas == 5
\* longest run list drawn by InitRuns
MaxRuns == 3
\* longest text drawn by InitSymbols
MaxHeapParas == 4
MaxImageCalls == 2
MaxFileCalls == 2
MaxText == 2

(***************************************************************************)
(* Python str helpers.                                                     *)
(***************************************************************************)
\* characters str.strip() removes (str.isspace()) that occur in the model
Whitespace == {" ", "\t", "\n", "U+00A0"}

\* characters matched by \d that occur in the model
Digits == {"0", "1", "2", "3", "4", "5", "6", "7", "8", "9"}

RECURSIVE lstrip(_)
lstrip(s) ==
    IF s = <<>> THEN s
    ELSE IF Head(s) \in Whitespace THEN lstrip(Tail(s)) ELSE s

RECURSIVE rstrip(_)
rstrip(s) ==
    IF s = <<>> THEN s
    ELSE IF s[Len(s)] \in Whitespace THEN rstrip(SubSeq(s, 1, Len(s) - 1)) ELSE s

\* str.strip()
strip(s) == rstrip(lstrip(s))

\* "".join(parts) for a list of str
RECURSIVE join(_)
join(parts) ==
    IF parts = <<>> THEN <<>> ELSE Head(parts) \o join(Tail(parts))

\* sep.join(parts) for a list of str
RECURSIVE join_sep(_, _)
join_sep(sep, parts) ==
    IF parts = <<>> THEN <<>>
    ELSE IF Len(parts) = 1 THEN parts[1]
    ELSE parts[1] \o sep \o join_sep(sep, Tail(parts))

\* n characters of text from position s on are all digits
DigitsAt(text, s, n) ==
    /\ s + n - 1 <= Len(text)
    /\ \A k \in s..(s + n - 1) : text[k] \in Digits

DashAt(text, s) == s <= Len(text) /\ text[s] = "-"

\* re.search(r"\d{1,2}-\d{1,2}-\d{2,4}", text) is not None
date_pattern(text) ==
    \E s \in 1..Len(text), a \in 1..2, b \in 1..2, c \in 2..4 :
        /\ DigitsAt(text, s, a)
        /\ DashAt(text, s + a)
        /\ DigitsAt(text, s + a + 1, b)
        /\ DashAt(text, s + a + b + 1)
        /\ DigitsAt(text, s + a + b + 2, c)

(***************************************************************************)
(* DocxFile: the content extractor (core/docx.py).                         *)
(***************************************************************************)
\* python-docx Paragraph.text: the text of the paragraph's runs
paragraph_text(paragraph) ==
    join([k \in 1..Len(paragraph.runs) |-> paragraph.runs[k].text])

\* _get_alignment with a slip: the map has no entry for RIGHT
_get_alignment_no_right(alignment) ==
    CASE alignment = "LEFT" -> "left"
      [] alignment = "CENTER" -> "center"
      [] alignment = "JUSTIFY" -> "justified"
      [] alignment = "None" -> "left"
      [] OTHER -> "left"

\* DocxFile._get_alignment
_get_alignment(alignment) ==
    CASE alignment = "LEFT" -> "left"
      [] alignment = "CENTER" -> "center"
      [] alignment = "RIGHT" -> "right"
      [] alignment = "JUSTIFY" -> "justified"
      [] alignment = "None" -> "left"
      [] OTHER -> "left"

\* run.bold or False, for run.bold in {True, False, None}
or_False(flag) == flag = "True"

\* DocxFile._basic_parse_paragraph
_basic_parse_paragraph(paragraph) ==
    LET runs_data ==
            [k \in 1..Len(paragraph.runs) |->
                [text |-> paragraph.runs[k].text,
                 bold |-> or_False(paragraph.runs[k].bold),
                 italic |-> or_False(paragraph.runs[k].italic)]]
    IN  [type |-> "paragraph",
         alignment |-> _get_alignment(paragraph.alignment),
         runs |-> runs_data,
         text |-> paragraph_text(paragraph),
         is_empty |-> Len(strip(paragraph_text(paragraph))) = 0]

\* DocxFile.load_basic_content
load_basic_content(doc) ==
    [k \in 1..Len(doc) |-> _basic_parse_paragraph(doc[k])]

(***************************************************************************)
(* _strip_content_before_date                                              *)
(***************************************************************************)
\* strip_scan with a slip: the date paragraph itself is kept
RECURSIVE strip_scan_keeps_date(_, _)
strip_scan_keeps_date(content, i) ==
    IF i > Len(content) THEN content
    ELSE IF ~content[i].is_empty /\ date_pattern(content[i].text)
         THEN SubSeq(content, i, Len(content))
         ELSE strip_scan_keeps_date(content, i + 1)

\* strip_scan with a slip: nothing is returned when no date is found
RECURSIVE strip_scan_fails_closed(_, _)
strip_scan_fails_closed(content, i) ==
    IF i > Len(content) THEN <<>>
    ELSE IF ~content[i].is_empty /\ date_pattern(content[i].text)
         THEN SubSeq(content, i + 1, Len(content))
         ELSE strip_scan_fails_closed(content, i + 1)

RECURSIVE strip_scan(_, _)
strip_scan(content, i) ==
    IF i > Len(content) THEN content
    ELSE IF ~content[i].is_empty /\ date_pattern(content[i].text)
         THEN SubSeq(content, i + 1, Len(content))
         ELSE strip_scan(content, i + 1)

_strip_content_before_date(content) == strip_scan(content, 1)

(***************************************************************************)
(* _group_consecutive_paragraphs                                           *)
(***************************************************************************)
\* the line break marker the grouper inserts: "<br></br>\n"
BreakMarkerText == <<"<", "b", "r", ">", "<", "/", "b", "r", ">", "\n">>

BreakMarkerRun == [text |-> BreakMarkerText, bold |-> FALSE, italic |-> FALSE]

\* the detection with a slip: any empty paragraph triggers the grouping
has_any_empty_paragraph(content) ==
    \E i \in 1..Len(content) : content[i].is_empty

\* the detection loop: range(1, len(content) - 1) with break
has_separating_empty_paragraphs(content) ==
    \E i \in 2..(Len(content) - 1) :
        /\ content[i].is_empty
        /\ ~content[i - 1].is_empty
        /\ ~content[i + 1].is_empty

\* stripped_runs with a slip: the texts are not stripped
unstripped_runs(runs) ==
    [k \in 1..Len(runs) |->
        [text |-> runs[k].text, bold |-> runs[k].bold, italic |-> runs[k].italic]]

\* stripped_runs with a slip: lstrip() instead of strip()
lstripped_runs(runs) ==
    [k \in 1..Len(runs) |->
        [text |-> lstrip(runs[k].text), bold |-> runs[k].bold, italic |-> runs[k].italic]]

\* for run in content[j]["runs"]: copy the run with its text stripped
stripped_runs(runs) ==
    [k \in 1..Len(runs) |->
        [text |-> strip(runs[k].text), bold |-> runs[k].bold, italic |-> runs[k].italic]]

\* combine_loop with a slip: the loop body never runs
combine_loop_never(content, combined_runs, j) == <<combined_runs, j>>

\* combine_loop with a slip: the line break is added after the paragraph's runs
RECURSIVE combine_loop_break_after(_, _, _)
combine_loop_break_after(content, combined_runs, j) ==
    IF j <= Len(content) /\ ~content[j].is_empty
    THEN combine_loop_break_after(content,
                                  Append(combined_runs \o stripped_runs(content[j].runs),
                                         BreakMarkerRun),
                                  j + 1)
    ELSE <<combined_runs, j>>

\* the inner while loop: returns the final <<combined_runs, j>>
RECURSIVE combine_loop(_, _, _)
combine_loop(content, combined_runs, j) ==
    IF j <= Len(content) /\ ~content[j].is_empty
    THEN combine_loop(content,
                      Append(combined_runs, BreakMarkerRun) \o stripped_runs(content[j].runs),
                      j + 1)
    ELSE <<combined_runs, j>>

\* group_loop with a slip: a new group is put in front of the earlier ones
RECURSIVE group_loop_prepend(_, _, _)
group_loop_prepend(content, grouped, i) ==
    IF i > Len(content) THEN grouped
    ELSE IF content[i].is_empty THEN group_loop_prepend(content, grouped, i + 1)
    ELSE LET current_para == content[i]
             combined == combine_loop(content, current_para.runs, i + 1)
             j == combined[2]
             grouped_para ==
                 [type |-> "paragraph",
                  alignment |-> current_para.alignment,
                  runs |-> combined[1],
                  text |-> join_sep(<<" ">>, [k \in 1..(j - i) |-> content[i + k - 1].text]),
                  is_empty |-> FALSE]
         IN  group_loop_prepend(content, <<grouped_para>> \o grouped, j)

\* group_loop with a slip: the group takes the alignment of its last member
RECURSIVE group_loop_last_alignment(_, _, _)
group_loop_last_alignment(content, grouped, i) ==
    IF i > Len(content) THEN grouped
    ELSE IF content[i].is_empty THEN group_loop_last_alignment(content, grouped, i + 1)
    ELSE LET current_para == content[i]
             combined == combine_loop(content, current_para.runs, i + 1)
             j == combined[2]
             grouped_para ==
                 [type |-> "paragraph",
                  alignment |-> content[j - 1].alignment,
                  runs |-> combined[1],
                  text |-> join_sep(<<" ">>, [k \in 1..(j - i) |-> content[i + k - 1].text]),
                  is_empty |-> FALSE]
         IN  group_loop_last_alignment(content, Append(grouped, grouped_para), j)

\* the outer while loop
RECURSIVE group_loop(_, _, _)
group_loop(content, grouped, i) ==
    IF i > Len(content) THEN grouped
    ELSE IF content[i].is_empty THEN group_loop(content, grouped, i + 1)
    ELSE LET current_para == content[i]
             combined == combine_loop(content, current_para.runs, i + 1)
             j == combined[2]
             grouped_para ==
                 [type |-> "paragraph",
                  alignment |-> current_para.alignment,
                  runs |-> combined[1],
                  text |-> join_sep(<<" ">>, [k \in 1..(j - i) |-> content[i + k - 1].text]),
                  is_empty |-> FALSE]
         IN  group_loop(content, Append(grouped, grouped_para), j)

_group_consecutive_paragraphs(content) ==
    IF ~has_separating_empty_paragraphs(content) THEN content
    ELSE group_loop(content, <<>>, 1)

(***************************************************************************)
(* _get_paragraph_font_style                                               *)
(***************************************************************************)
\* non_empty_runs with a slip: the line-break runs of a group are left out too
non_empty_runs_without_breaks(runs) ==
    SelectSeq(runs, LAMBDA run : strip(run.text) # <<>> /\ strip(run.text) # strip(BreakMarkerText))

\* [run for run in runs if run["text"].strip()]
non_empty_runs(runs) == SelectSeq(runs, LAMBDA run : strip(run.text) # <<>>)

\* _get_paragraph_font_style with a slip: italic is tested before bold
font_style_italic_first(runs) ==
    LET non_empty == non_empty_runs(runs)
        all_bold == \A k \in 1..Len(non_empty) : non_empty[k].bold
        all_italic == \A k \in 1..Len(non_empty) : non_empty[k].italic
    IN  IF non_empty = <<>> THEN "normal"
        ELSE IF all_italic THEN "italic"
        ELSE IF all_bold THEN "bold"
        ELSE "normal"

_get_paragraph_font_style(runs) ==
    LET non_empty == non_empty_runs(runs)
        all_bold == \A k \in 1..Len(non_empty) : non_empty[k].bold
        all_italic == \A k \in 1..Len(non_empty) : non_empty[k].italic
    IN  IF non_empty = <<>> THEN "normal"
        ELSE IF all_bold THEN "bold"
        ELSE IF all_italic THEN "italic"
        ELSE "normal"

(***************************************************************************)
(* _normalize_symbols                                                      *)
(***************************************************************************)
\* str.replace / re.sub of a character class: every character of text that
\* is in chars becomes the string repl
RECURSIVE replace(_, _, _)
replace(text, chars, repl) ==
    IF text = <<>> THEN <<>>
    ELSE (IF Head(text) \in chars THEN repl ELSE <<Head(text)>>)
         \o replace(Tail(text), chars, repl)

\* _normalize_symbols with a slip: "&" is replaced last instead of first
_normalize_symbols_amp_last(text) ==
    LET t2 == replace(text, {"U+201C", "U+201D", "\""}, <<"&", "q", "u", "o", "t", ";">>)
        t3 == replace(t2, {"U+2018", "U+2019", "U+0060", "U+0027"}, <<"&", "a", "p", "o", "s", ";">>)
        t4 == replace(t3, {"U+00A0"}, <<"&", "n", "b", "s", "p", ";">>)
        t5 == replace(t4, {"U+2013"}, <<"&", "n", "d", "a", "s", "h", ";">>)
        t6 == replace(t5, {"U+2014"}, <<"&", "m", "d", "a", "s", "h", ";">>)
        t7 == replace(t6, {"U+00A9"}, <<"&", "c", "o", "p", "y", ";">>)
        t8 == replace(t7, {"U+00AE"}, <<"&", "r", "e", "g", ";">>)
        t9 == replace(t8, {"U+2122"}, <<"&", "t", "r", "a", "d", "e", ";">>)
        t10 == replace(t9, {"U+00B0"}, <<"&", "d", "e", "g", ";">>)
    IN  replace(t10, {"&"}, <<"&", "a", "m", "p", ";">>)

_normalize_symbols(text) ==
    LET t1 == replace(text, {"&"}, <<"&", "a", "m", "p", ";">>)
        t2 == replace(t1, {"U+201C", "U+201D", "\""}, <<"&", "q", "u", "o", "t", ";">>)
        t3 == replace(t2, {"U+2018", "U+2019", "U+0060", "U+0027"}, <<"&", "a", "p", "o", "s", ";">>)
        t4 == replace(t3, {"U+00A0"}, <<"&", "n", "b", "s", "p", ";">>)
        t5 == replace(t4, {"U+2013"}, <<"&", "n", "d", "a", "s", "h", ";">>)
        t6 == replace(t5, {"U+2014"}, <<"&", "m", "d", "a", "s", "h", ";">>)
        t7 == replace(t6, {"U+00A9"}, <<"&", "c", "o", "p", "y", ";">>)
        t8 == replace(t7, {"U+00AE"}, <<"&", "r", "e", "g", ";">>)
        t9 == replace(t8, {"U+2122"}, <<"&", "t", "r", "a", "d", "e", ";">>)
    IN  replace(t9, {"U+00B0"}, <<"&", "d", "e", "g", ";">>)

(***************************************************************************)
(* _process_paragraph_text                                                 *)
(***************************************************************************)
\* the text the merge loop compares a run's text with: "<br></br>"
LineBreakText == <<"<", "b", "r", ">", "<", "/", "b", "r", ">">>

EmOpen == <<"<", "e", "m", ">">>
EmClose == <<"<", "/", "e", "m", ">">>
BOpen == <<"<", "b", ">">>
BClose == <<"<", "/", "b", ">">>

\* processed_runs_of with a slip: the paragraph's font style is not looked at
processed_runs_unsuppressed(runs) ==
    [k \in 1..Len(runs) |->
        [text |-> _normalize_symbols(runs[k].text),
         needs_italic |-> runs[k].italic,
         needs_bold |-> runs[k].bold]]

\* processed_runs_of with a slip: the text of a run is normalized a second time
processed_runs_twice(runs) ==
    LET paragraph_font_style == _get_paragraph_font_style(runs)
    IN  [k \in 1..Len(runs) |->
            [text |-> _normalize_symbols(_normalize_symbols(runs[k].text)),
             needs_italic |-> runs[k].italic /\ paragraph_font_style # "italic",
             needs_bold |-> runs[k].bold /\ paragraph_font_style # "bold"]]

\* the first loop: normalized text and the formatting each run needs
processed_runs_of(runs) ==
    LET paragraph_font_style == _get_paragraph_font_style(runs)
    IN  [k \in 1..Len(runs) |->
            [text |-> _normalize_symbols(runs[k].text),
             needs_italic |-> runs[k].italic /\ paragraph_font_style # "italic",
             needs_bold |-> runs[k].bold /\ paragraph_font_style # "bold"]]

\* collect_loop with a slip: no run is merged into the current one
collect_loop_never(processed_runs, current_run, text_group, j) == <<text_group, j>>

\* the inner while loop: returns the final <<text_group, j>>
RECURSIVE collect_loop(_, _, _, _)
collect_loop(processed_runs, current_run, text_group, j) ==
    IF /\ j <= Len(processed_runs)
       /\ processed_runs[j].needs_italic = current_run.needs_italic
       /\ processed_runs[j].needs_bold = current_run.needs_bold
    THEN collect_loop(processed_runs, current_run,
                      text_group \o processed_runs[j].text, j + 1)
    ELSE <<text_group, j>>

\* apply_formatting with a slip: bold is applied first, italic outermost
apply_formatting_bold_first(current_run, text_group) ==
    LET t1 == IF current_run.needs_bold THEN BOpen \o text_group \o BClose
              ELSE text_group
    IN  IF current_run.needs_italic THEN EmOpen \o t1 \o EmClose ELSE t1

\* f"<em>{text_group}</em>" then f"<b>{text_group}</b>"
apply_formatting(current_run, text_group) ==
    LET t1 == IF current_run.needs_italic THEN EmOpen \o text_group \o EmClose
              ELSE text_group
    IN  IF current_run.needs_bold THEN BOpen \o t1 \o BClose ELSE t1

\* merge_loop with a slip: the run after a merged group is skipped (i = j + 1)
RECURSIVE merge_loop_skip(_, _, _)
merge_loop_skip(processed_runs, merged_parts, i) ==
    IF i > Len(processed_runs) THEN merged_parts
    ELSE LET current_run == processed_runs[i]
         IN  IF current_run.text = LineBreakText
             THEN merge_loop_skip(processed_runs, Append(merged_parts, current_run.text), i + 1)
             ELSE LET collected ==
                          collect_loop(processed_runs, current_run, current_run.text, i + 1)
                  IN  merge_loop_skip(processed_runs,
                                      Append(merged_parts,
                                             apply_formatting(current_run, collected[1])),
                                      collected[2] + 1)

\* the outer while loop: returns the final merged_parts
RECURSIVE merge_loop(_, _, _)
merge_loop(processed_runs, merged_parts, i) ==
    IF i > Len(processed_runs) THEN merged_parts
    ELSE LET current_run == processed_runs[i]
         IN  IF current_run.text = LineBreakText
             THEN merge_loop(processed_runs, Append(merged_parts, current_run.text), i + 1)
             ELSE LET collected ==
                          collect_loop(processed_runs, current_run, current_run.text, i + 1)
                  IN  merge_loop(processed_runs,
                                 Append(merged_parts,
                                        apply_formatting(current_run, collected[1])),
                                 collected[2])

\* the local merged_parts when _process_paragraph_text returns
merged_parts_of(runs) == merge_loop(processed_runs_of(runs), <<>>, 1)

_process_paragraph_text(runs) == join(merged_parts_of(runs))

(***************************************************************************)
(* Paths (pathlib) and the JSX templates of convert_docx_to_written_content *)
(***************************************************************************)
\* output_path=None
NoPath == <<"None">>

\* the docx_filepath of the model; it has the .docx suffix, so that
\* DocxFile._validate_docx_extension passes
DocxFilepath == <<"i", "n", ".", "d", "o", "c", "x">>

\* str.lower() on the characters that occur in the model's paths
lower_char(c) ==
    CASE c = "T" -> "t"
      [] c = "X" -> "x"
      [] c = "P" -> "p"
      [] c = "N" -> "n"
      [] c = "G" -> "g"
      [] OTHER -> c

lower(s) == [k \in 1..Len(s) |-> lower_char(s[k])]

\* str.rfind("."), 1-based; 0 when there is none
rfind_dot(name) ==
    IF \E k \in 1..Len(name) : name[k] = "."
    THEN CHOOSE k \in 1..Len(name) :
            name[k] = "." /\ \A m \in (k + 1)..Len(name) : name[m] # "."
    ELSE 0

\* Path(path).suffix, for a path of one component
suffix(path) ==
    LET i == rfind_dot(path)
    IN  IF 1 < i /\ i < Len(path) THEN SubSeq(path, i, Len(path)) ELSE <<>>

\* Path(path).stem, for a path of one component
stem(path) ==
    LET i == rfind_dot(path)
    IN  IF 1 < i /\ i < Len(path) THEN SubSeq(path, 1, i - 1) ELSE path

\* sub in s
contains(sub, s) ==
    \E k \in 1..(Len(s) - Len(sub) + 1) : SubSeq(s, k, k + Len(sub) - 1) = sub

\* output_path is not None and ".txt" not in Path(output_path).suffix.lower()
invalid_output_path(path) ==
    path # NoPath /\ ~contains(<<".", "t", "x", "t">>, lower(suffix(path)))

\* input_path.parent / f"{input_path.stem}_written_content.txt"
default_output_path(input_path) == stem(input_path) \o <<"_written_content.txt">>

\* text_align_of with a slip: the unknown-alignment check comes first
text_align_fallback_first(alignment) ==
    LET text_align == IF alignment \notin {"left", "center", "right", "justify"} THEN "left"
                      ELSE alignment
    IN  IF text_align = "justified" THEN "justify" ELSE text_align

\* text_align after the "justified" and the unknown-alignment checks
text_align_of(alignment) ==
    LET text_align == IF alignment = "justified" THEN "justify" ELSE alignment
    IN  IF text_align \notin {"left", "center", "right", "justify"} THEN "left"
        ELSE text_align

\* the f-string of one WrittenContentParagraphElement
jsx_element_of(font_style, text_align, processed_text) ==
    <<"          <WrittenContentParagraphElement\n            fontStyle=\"">>
    \o <<font_style>>
    \o <<"\"\n            textAlign=\"">>
    \o <<text_align>>
    \o <<"\"\n          >\n            ">>
    \o processed_text
    \o <<"\n          </WrittenContentParagraphElement>">>

\* jsx_output_of with a slip: the elements are joined by one newline
jsx_output_single_newline(jsx_paragraphs) ==
    <<"<WrittenContentLoader {...storyMetadata}>\n        <WrittenContentParagraphGroup>\n">>
    \o join_sep(<<"\n">>, jsx_paragraphs)
    \o <<"\n        </WrittenContentParagraphGroup>\n      </WrittenContentLoader>">>

\* the f-string of the whole output
jsx_output_of(jsx_paragraphs) ==
    <<"<WrittenContentLoader {...storyMetadata}>\n        <WrittenContentParagraphGroup>\n">>
    \o join_sep(<<"\n\n">>, jsx_paragraphs)
    \o <<"\n        </WrittenContentParagraphGroup>\n      </WrittenContentLoader>">>

(***************************************************************************)
(* State.                                                                  *)
(***************************************************************************)
VARIABLES
    docx_state,      \* the file at docx_filepath: "ok", "missing" or "corrupt"
    docx_document,   \* the paragraphs python-docx finds in that file
    output_path,     \* the output_path argument (NoPath for None)
    pc,              \* position in convert_docx_to_written_content
    document,        \* DocxFile.document
    loaded,          \* content after line 31 (load_basic_content)
    stripped,        \* content after line 32 (_strip_content_before_date)
    grouped,         \* content after line 33 (_group_consecutive_paragraphs)
    idx,             \* position of the render loop in content (1-based)
    jsx_paragraphs,  \* the list jsx_paragraphs
    jsx_output,      \* the string jsx_output
    written,         \* the writes made to the file system, in order
    error,           \* the exception raised, "" while there is none
    runs,            \* argument of the latest run-level call
    font_style,      \* result of the latest _get_paragraph_font_style(runs)
    merged_parts,    \* merged_parts of the latest _process_paragraph_text(runs)
    processed_text,  \* result of the latest _process_paragraph_text(runs)
    raw_text,        \* argument text of the latest _normalize_symbols call
    normalized,      \* result of the latest _normalize_symbols(raw_text)
    run_objects,     \* the run dicts in memory; a run's identity is its index
    run_lists,       \* the lists of runs in memory, each a sequence of identities
    input_refs,      \* argument content of the latest stage, runs by reference
    result_refs,     \* what that stage returned, runs by reference
    objects_at_call, \* <<run_objects, run_lists>> when that stage was called
    image_path,      \* ImageFile.path
    image,           \* ImageFile.image: the dimensions of the image in memory
    image_files,     \* the image stored at each path of the file system
    image_call,      \* the latest ImageFile call: arguments, outcome, state before
    image_calls,     \* the number of ImageFile calls made
    file_path,       \* File.path
    fs_files,        \* the file stored at each path of the file system
    file_call,       \* the latest File call: arguments, outcome, state before
    file_calls       \* the number of File calls made

vars == <<docx_state, docx_document, output_path, pc, document, loaded, stripped,
          grouped, idx, jsx_paragraphs, jsx_output, written, error, runs,
          font_style, merged_parts, processed_text, raw_text, normalized,
          run_objects, run_lists, input_refs, result_refs, objects_at_call,
          image_path, image, image_files, image_call, image_calls,
          file_path, fs_files, file_call, file_calls>>

inputs == <<docx_state, docx_document, output_path>>
contents == <<loaded, stripped, grouped>>
run_level == <<runs, font_style, merged_parts, processed_text>>
render_state == <<idx, jsx_paragraphs, jsx_output>>
symbol_level == <<raw_text, normalized>>
heap_level == <<run_objects, run_lists, input_refs, result_refs, objects_at_call>>
image_level == <<image_path, image, image_files, image_call, image_calls>>
file_level == <<file_path, fs_files, file_call, file_calls>>
object_level == <<heap_level, image_level, file_level>>

(***************************************************************************)
(* The inputs Init draws.                                                  *)
(***************************************************************************)
SeqsUpTo(S, n) == UNION {[1..k -> S] : k \in 0..n}

SrcRun(text, bold, italic) == [text |-> text, bold |-> bold, italic |-> italic]

\* an empty paragraph (no run)
PEmpty == [runs |-> <<>>, alignment |-> "None"]

\* "Title", bold, centered
PTitle ==
    [runs |-> <<SrcRun(<<"T", "i", "t", "l", "e">>, "True", "None")>>,
     alignment |-> "CENTER"]

\* "7-1-24", italic, right aligned
PDate ==
    [runs |-> <<SrcRun(<<"7", "-", "1", "-", "2", "4">>, "None", "True")>>,
     alignment |-> "RIGHT"]

\* "Hello world." in a plain and an italic run, justified
PHello ==
    [runs |-> <<SrcRun(<<"H", "e", "l", "l", "o", " ">>, "None", "None"),
                SrcRun(<<"w", "o", "r", "l", "d", ".">>, "False", "True")>>,
     alignment |-> "JUSTIFY"]

\* "Line one.", plain, no alignment
PLineOne ==
    [runs |-> <<SrcRun(<<"L", "i", "n", "e", " ", "o", "n", "e", ".">>, "False", "False")>>,
     alignment |-> "None"]

\* "Line two." in two bold runs, an alignment _get_alignment does not know
PLineTwo ==
    [runs |-> <<SrcRun(<<"L", "i", "n", "e", " ">>, "True", "False"),
                SrcRun(<<"t", "w", "o", ".">>, "True", "None")>>,
     alignment |-> "DISTRIBUTE"]

ParagraphPool == {PEmpty, PTitle, PDate, PHello, PLineOne, PLineTwo}

OutputPaths ==
    {NoPath,
     <<"o", "u", "t", ".", "t", "x", "t">>,
     <<"o", "u", "t", ".", "T", "X", "T">>,
     <<"r", "e", "s", "u", "l", "t", ".", "h", "t", "m", "l">>,
     <<"o", "u", "t">>,
     <<"o", "u", "t", ".", "t", "x", "t", "x">>}

\* texts of the runs InitRuns draws
RunTexts == {<<>>, <<" ">>, <<"a">>, LineBreakText}

\* runs with a letter, an ampersand or a quote as text
LetterRuns ==
    {[text |-> <<"A">>, bold |-> TRUE, italic |-> FALSE],
     [text |-> <<"B">>, bold |-> TRUE, italic |-> FALSE],
     [text |-> <<"&">>, bold |-> FALSE, italic |-> FALSE],
     [text |-> <<"\"">>, bold |-> FALSE, italic |-> TRUE]}

RunPool == [text : RunTexts, bold : BOOLEAN, italic : BOOLEAN] \cup LetterRuns

Idle ==
    /\ document = <<>>
    /\ loaded = <<>>
    /\ stripped = <<>>
    /\ grouped = <<>>
    /\ idx = 0
    /\ jsx_paragraphs = <<>>
    /\ jsx_output = <<>>
    /\ written = <<>>
    /\ error = ""
    /\ font_style = ""
    /\ merged_parts = <<>>
    /\ processed_text = <<>>
    /\ normalized = <<>>

\* no stage has been called on objects in memory
HeapIdle ==
    /\ run_objects = <<>>
    /\ run_lists = <<>>
    /\ input_refs = <<>>
    /\ result_refs = <<>>
    /\ objects_at_call = [runs |-> <<>>, lists |-> <<>>]

\* no ImageFile has been constructed
ImageIdle ==
    /\ image_path = <<>>
    /\ image = <<>>
    /\ image_files = <<>>
    /\ image_call = <<>>
    /\ image_calls = 0

\* no File has been constructed
FileIdle ==
    /\ file_path = <<>>
    /\ fs_files = <<>>
    /\ file_call = <<>>
    /\ file_calls = 0

\* a call convert_docx_to_written_content(docx_filepath, output_path): every
\* document with the default output path, and every output path and state of
\* the input file with the documents of at most one paragraph
Init ==
    /\ pc = "start"
    /\ runs = <<>>
    /\ raw_text = <<>>
    /\ Idle
    /\ HeapIdle /\ ImageIdle /\ FileIdle
    /\ \/ /\ docx_document \in SeqsUpTo(ParagraphPool, MaxParas)
          /\ docx_state = "ok"
          /\ output_path = NoPath
       \/ /\ docx_document \in SeqsUpTo(ParagraphPool, 1)
          /\ docx_state \in {"ok", "missing", "corrupt"}
          /\ output_path \in OutputPaths

(***************************************************************************)
(* convert_docx_to_written_content, line by line.                          *)
(***************************************************************************)
\* DocxFile(docx_filepath): File.__init__ finds no file
OpenDocxNotFound ==
    /\ pc = "start"
    /\ docx_state = "missing"
    /\ error' = "FileNotFoundError"
    /\ pc' = "raised"
    /\ UNCHANGED object_level
    /\ UNCHANGED <<symbol_level, inputs, document, contents, render_state, written, run_level>>

\* DocxFile(docx_filepath): Document(self.path) cannot read the file
OpenDocxCorrupt ==
    /\ pc = "start"
    /\ docx_state = "corrupt"
    /\ error' = "PackageNotFoundError"
    /\ pc' = "raised"
    /\ UNCHANGED object_level
    /\ UNCHANGED <<symbol_level, inputs, document, contents, render_state, written, run_level>>

\* DocxFile(docx_filepath)
OpenDocx ==
    /\ pc = "start"
    /\ docx_state = "ok"
    /\ document' = docx_document
    /\ pc' = "opened"
    /\ UNCHANGED object_level
    /\ UNCHANGED <<symbol_level, inputs, contents, render_state, written, error, run_level>>

\* content = docx.load_basic_content()
LoadBasicContent ==
    /\ pc = "opened"
    /\ loaded' = load_basic_content(document)
    /\ pc' = "loaded"
    /\ UNCHANGED object_level
    /\ UNCHANGED <<symbol_level, inputs, document, stripped, grouped, render_state, written, error,
                   run_level>>

\* content = _strip_content_before_date(content)
StripContentBeforeDate ==
    /\ pc = "loaded"
    /\ stripped' = _strip_content_before_date(loaded)
    /\ pc' = "stripped"
    /\ UNCHANGED object_level
    /\ UNCHANGED <<symbol_level, inputs, document, loaded, grouped, render_state, written, error,
                   run_level>>

\* content = _group_consecutive_paragraphs(content)
GroupConsecutiveParagraphs ==
    /\ pc = "stripped"
    /\ grouped' = _group_consecutive_paragraphs(stripped)
    /\ pc' = "grouped"
    /\ UNCHANGED object_level
    /\ UNCHANGED <<symbol_level, inputs, document, loaded, stripped, render_state, written, error,
                   run_level>>

\* RaiseInvalidOutputPath with a slip: the check comes after the file is opened
\* for writing
RaiseInvalidOutputPathAfterOpen ==
    /\ pc = "grouped"
    /\ invalid_output_path(output_path)
    /\ written' = Append(written, [path |-> output_path, data |-> <<>>])
    /\ error' = "ValueError"
    /\ pc' = "raised"
    /\ UNCHANGED object_level
    /\ UNCHANGED <<symbol_level, inputs, document, contents, render_state, run_level>>

\* the output path check raises ValueError
RaiseInvalidOutputPath ==
    /\ pc = "grouped"
    /\ invalid_output_path(output_path)
    /\ error' = "ValueError"
    /\ pc' = "raised"
    /\ UNCHANGED object_level
    /\ UNCHANGED <<symbol_level, inputs, document, contents, render_state, written, run_level>>

\* the output path check passes; jsx_paragraphs = []
AcceptOutputPath ==
    /\ pc = "grouped"
    /\ ~invalid_output_path(output_path)
    /\ jsx_paragraphs' = <<>>
    /\ idx' = 1
    /\ pc' = "render"
    /\ UNCHANGED object_level
    /\ UNCHANGED <<symbol_level, inputs, document, contents, jsx_output, written, error, run_level>>

\* one iteration of the render loop: if paragraph_data["is_empty"]: continue
SkipEmptyParagraph ==
    /\ pc = "render"
    /\ idx <= Len(grouped)
    /\ grouped[idx].is_empty
    /\ idx' = idx + 1
    /\ UNCHANGED object_level
    /\ UNCHANGED <<symbol_level, inputs, pc, document, contents, jsx_paragraphs, jsx_output, written,
                   error, run_level>>

\* one iteration of the render loop for a paragraph that is not empty
RenderParagraph ==
    /\ pc = "render"
    /\ idx <= Len(grouped)
    /\ ~grouped[idx].is_empty
    /\ LET paragraph_data == grouped[idx]
       IN  /\ runs' = paragraph_data.runs
           /\ font_style' = _get_paragraph_font_style(paragraph_data.runs)
           /\ merged_parts' = merged_parts_of(paragraph_data.runs)
           /\ processed_text' = _process_paragraph_text(paragraph_data.runs)
           /\ jsx_paragraphs' =
                  Append(jsx_paragraphs,
                         jsx_element_of(_get_paragraph_font_style(paragraph_data.runs),
                                        text_align_of(paragraph_data.alignment),
                                        _process_paragraph_text(paragraph_data.runs)))
    /\ idx' = idx + 1
    /\ UNCHANGED object_level
    /\ UNCHANGED <<symbol_level, inputs, pc, document, contents, jsx_output, written, error>>

\* after the loop: jsx_output = f"""..."""
BuildJsxOutput ==
    /\ pc = "render"
    /\ idx > Len(grouped)
    /\ jsx_output' = jsx_output_of(jsx_paragraphs)
    /\ pc' = "built"
    /\ UNCHANGED object_level
    /\ UNCHANGED <<symbol_level, inputs, document, contents, idx, jsx_paragraphs, written, error,
                   run_level>>

\* open(output_path, "w").write(jsx_output); return jsx_output
WriteOutput ==
    /\ pc = "built"
    /\ LET path == IF output_path = NoPath THEN default_output_path(DocxFilepath)
                   ELSE output_path
       IN  written' = Append(written, [path |-> path, data |-> jsx_output])
    /\ pc' = "done"
    /\ UNCHANGED object_level
    /\ UNCHANGED <<symbol_level, inputs, document, contents, render_state, error, run_level>>

Next ==
    \/ OpenDocxNotFound
    \/ OpenDocxCorrupt
    \/ OpenDocx
    \/ LoadBasicContent
    \/ StripContentBeforeDate
    \/ GroupConsecutiveParagraphs
    \/ RaiseInvalidOutputPath
    \/ AcceptOutputPath
    \/ SkipEmptyParagraph
    \/ RenderParagraph
    \/ BuildJsxOutput
    \/ WriteOutput

Spec == Init /\ [][Next]_vars

(***************************************************************************)
(* The run-level functions applied to every short run list.                *)
(***************************************************************************)
InitRuns ==
    /\ pc = "runs"
    /\ raw_text = <<>>
    /\ runs \in SeqsUpTo(RunPool, MaxRuns)
    /\ docx_state = "ok"
    /\ docx_document = <<>>
    /\ output_path = NoPath
    /\ Idle
    /\ HeapIdle /\ ImageIdle /\ FileIdle

\* font_style = _get_paragraph_font_style(runs)
GetParagraphFontStyle ==
    /\ pc = "runs"
    /\ font_style' = _get_paragraph_font_style(runs)
    /\ pc' = "styled"
    /\ UNCHANGED object_level
    /\ UNCHANGED <<symbol_level, inputs, document, contents, render_state, written, error, runs,
                   merged_parts, processed_text>>

\* processed_text = _process_paragraph_text(runs)
ProcessParagraphText ==
    /\ pc = "styled"
    /\ merged_parts' = merged_parts_of(runs)
    /\ processed_text' = _process_paragraph_text(runs)
    /\ pc' = "processed"
    /\ UNCHANGED object_level
    /\ UNCHANGED <<symbol_level, inputs, document, contents, render_state, written, error, runs,
                   font_style>>

NextRuns == GetParagraphFontStyle \/ ProcessParagraphText

SpecRuns == InitRuns /\ [][NextRuns]_vars

(***************************************************************************)
(* _normalize_symbols applied to every short text.                         *)
(***************************************************************************)
\* the characters _normalize_symbols replaces
TableChars ==
    {"&", "\"", "U+201C", "U+201D", "U+0060", "U+0027", "U+2018", "U+2019", "U+00A0",
     "U+2013", "U+2014", "U+00A9", "U+00AE", "U+2122", "U+00B0"}

\* He said "hi" & left.
ScenarioC ==
    <<"H", "e", " ", "s", "a", "i", "d", " ", "\"", "h", "i", "\"", " ", "&", " ",
      "l", "e", "f", "t", ".">>

InitSymbols ==
    /\ pc = "text"
    /\ raw_text \in SeqsUpTo(TableChars \cup {"a", ";"}, MaxText) \cup {ScenarioC}
    /\ runs = <<>>
    /\ docx_state = "ok"
    /\ docx_document = <<>>
    /\ output_path = NoPath
    /\ Idle
    /\ HeapIdle /\ ImageIdle /\ FileIdle

\* normalized = _normalize_symbols(raw_text)
NormalizeSymbols ==
    /\ pc = "text"
    /\ normalized' = _normalize_symbols(raw_text)
    /\ pc' = "normalized"
    /\ UNCHANGED object_level
    /\ UNCHANGED <<raw_text, inputs, document, contents, render_state, written, error,
                   run_level>>

NextSymbols == NormalizeSymbols

SpecSymbols == InitSymbols /\ [][NextSymbols]_vars

(***************************************************************************)
(* The stages on objects in memory: a run is a dict and a paragraph's runs  *)
(* a list, both with an identity; the stages receive and return references. *)
(* h = [runs |-> the run dicts, lists |-> the lists of runs].  Paragraph    *)
(* dicts and the content lists are never written by the stages.             *)
(***************************************************************************)
NoObjects == [runs |-> <<>>, lists |-> <<>>]

\* load_basic_content creating its dicts and lists: returns <<h, content>>
\* with content[k]["runs"] the identity of the list runs_data
RECURSIVE allocate_content(_, _, _)
allocate_content(content, h, refs) ==
    IF content = <<>> THEN <<h, refs>>
    ELSE LET paragraph == Head(content)
             first == Len(h.runs)
             h1 == [runs |-> h.runs \o paragraph.runs,
                    lists |-> Append(h.lists,
                                     [r \in 1..Len(paragraph.runs) |-> first + r])]
         IN  allocate_content(Tail(content), h1,
                              Append(refs, [paragraph EXCEPT !.runs = Len(h1.lists)]))

\* the runs of the list with identity list_id, by value
runs_of(h, list_id) == [r \in 1..Len(h.lists[list_id]) |-> h.runs[h.lists[list_id][r]]]

\* the content refs by value
content_of(h, refs) ==
    [k \in 1..Len(refs) |-> [refs[k] EXCEPT !.runs = runs_of(h, refs[k].runs)]]

\* copy_stripped_run with a slip: stripped_run = run, the text is set on the
\* run itself
strip_run_in_place(h, run) ==
    <<[h EXCEPT !.runs[run].text = strip(@)], run>>

\* stripped_run = run.copy(); stripped_run["text"] = run["text"].strip():
\* returns <<h, identity of stripped_run>>
copy_stripped_run(h, run) ==
    <<[h EXCEPT !.runs = Append(@, [h.runs[run] EXCEPT !.text = strip(@)])],
      Len(h.runs) + 1>>

\* for run in content[j]["runs"]: ... combined_runs.append(stripped_run)
RECURSIVE append_stripped_runs(_, _, _, _)
append_stripped_runs(h, combined_runs, member_runs, r) ==
    IF r > Len(h.lists[member_runs]) THEN h
    ELSE LET copied == copy_stripped_run(h, h.lists[member_runs][r])
             h1 == [copied[1] EXCEPT !.lists[combined_runs] = Append(@, copied[2])]
         IN  append_stripped_runs(h1, combined_runs, member_runs, r + 1)

\* the inner while loop on objects: returns <<h, j>>
RECURSIVE combine_loop_refs(_, _, _, _)
combine_loop_refs(content, h, combined_runs, j) ==
    IF j <= Len(content) /\ ~content[j].is_empty
    THEN LET h1 == [h EXCEPT !.runs = Append(@, BreakMarkerRun)]
             h2 == [h1 EXCEPT !.lists[combined_runs] = Append(@, Len(h1.runs))]
         IN  combine_loop_refs(content,
                               append_stripped_runs(h2, combined_runs, content[j].runs, 1),
                               combined_runs, j + 1)
    ELSE <<h, j>>

\* the outer while loop on objects: returns <<h, grouped>>
RECURSIVE group_loop_refs(_, _, _, _)
group_loop_refs(content, h, grouped_refs, i) ==
    IF i > Len(content) THEN <<h, grouped_refs>>
    ELSE IF content[i].is_empty THEN group_loop_refs(content, h, grouped_refs, i + 1)
    ELSE LET current_para == content[i]
             \* combined_runs = list(current_para["runs"])
             h1 == [h EXCEPT !.lists = Append(@, h.lists[current_para.runs])]
             combined_runs == Len(h1.lists)
             combined == combine_loop_refs(content, h1, combined_runs, i + 1)
             j == combined[2]
             grouped_para ==
                 [type |-> "paragraph",
                  alignment |-> current_para.alignment,
                  runs |-> combined_runs,
                  text |-> join_sep(<<" ">>, [k \in 1..(j - i) |-> content[i + k - 1].text]),
                  is_empty |-> FALSE]
         IN  group_loop_refs(content, combined[1], Append(grouped_refs, grouped_para), j)

\* _group_consecutive_paragraphs on objects: returns <<h, grouped content>>
group_refs(content, h) ==
    IF ~has_separating_empty_paragraphs(content) THEN <<h, content>>
    ELSE group_loop_refs(content, h, <<>>, 1)

\* the render loop of convert_docx_to_written_content: the elements of the
\* paragraphs that are not empty
RECURSIVE render_loop(_)
render_loop(content) ==
    IF content = <<>> THEN <<>>
    ELSE LET paragraph_data == Head(content)
         IN  IF paragraph_data.is_empty THEN render_loop(Tail(content))
             ELSE <<jsx_element_of(_get_paragraph_font_style(paragraph_data.runs),
                                   text_align_of(paragraph_data.alignment),
                                   _process_paragraph_text(paragraph_data.runs))>>
                  \o render_loop(Tail(content))

\* after content = docx.load_basic_content()
InitHeap ==
    /\ pc = "heap"
    /\ docx_state = "ok"
    /\ docx_document \in SeqsUpTo(ParagraphPool, MaxHeapParas)
    /\ LET allocated == allocate_content(load_basic_content(docx_document), NoObjects, <<>>)
       IN  /\ run_objects = allocated[1].runs
           /\ run_lists = allocated[1].lists
           /\ result_refs = allocated[2]
    /\ input_refs = <<>>
    /\ objects_at_call = NoObjects
    /\ output_path = NoPath
    /\ runs = <<>>
    /\ raw_text = <<>>
    /\ Idle
    /\ ImageIdle /\ FileIdle

\* content = _strip_content_before_date(content): a slice of the list
StripByReference ==
    /\ pc = "heap"
    /\ input_refs' = result_refs
    /\ objects_at_call' = [runs |-> run_objects, lists |-> run_lists]
    /\ result_refs' = _strip_content_before_date(result_refs)
    /\ pc' = "heap_stripped"
    /\ UNCHANGED <<run_objects, run_lists, image_level, file_level>>
    /\ UNCHANGED <<symbol_level, inputs, document, contents, render_state, written, error,
                   run_level>>

\* content = _group_consecutive_paragraphs(content)
GroupByReference ==
    /\ pc = "heap_stripped"
    /\ input_refs' = result_refs
    /\ objects_at_call' = [runs |-> run_objects, lists |-> run_lists]
    /\ LET returned == group_refs(result_refs, [runs |-> run_objects, lists |-> run_lists])
       IN  /\ run_objects' = returned[1].runs
           /\ run_lists' = returned[1].lists
           /\ result_refs' = returned[2]
    /\ pc' = "heap_grouped"
    /\ UNCHANGED <<image_level, file_level>>
    /\ UNCHANGED <<symbol_level, inputs, document, contents, render_state, written, error,
                   run_level>>

\* the render loop: reads the paragraphs and their runs
RenderByReference ==
    /\ pc = "heap_grouped"
    /\ input_refs' = result_refs
    /\ objects_at_call' = [runs |-> run_objects, lists |-> run_lists]
    /\ jsx_paragraphs' =
           render_loop(content_of([runs |-> run_objects, lists |-> run_lists], result_refs))
    /\ pc' = "heap_rendered"
    /\ UNCHANGED <<run_objects, run_lists, result_refs, image_level, file_level>>
    /\ UNCHANGED <<symbol_level, inputs, document, contents, idx, jsx_output, written, error,
                   run_level>>

NextHeap == StripByReference \/ GroupByReference \/ RenderByReference

SpecHeap == InitHeap /\ [][NextHeap]_vars

(***************************************************************************)
(* ImageFile (core/image.py).  An image is its dimensions <<width, height>>;*)
(* the file system is a function from the paths of the files that exist to  *)
(* the images stored there.  self is [path, image, files, raised]: the      *)
(* object's path and in-memory image, the file system, and the exception a  *)
(* call ends with ("" when it returns).                                     *)
(***************************************************************************)
SUPPORTED_IMAGE_EXTENSIONS ==
    {<<".", "p", "n", "g">>, <<".", "j", "p", "g">>, <<".", "j", "p", "e", "g">>,
     <<".", "g", "i", "f">>, <<".", "b", "m", "p">>, <<".", "t", "i", "f", "f">>,
     <<".", "w", "e", "b", "p">>, <<".", "i", "c", "o">>}

\* the directories that exist: the working directory and out
ExistingDirs == {<<>>, <<"o", "u", "t">>}

\* the directory part of a path: what is before its last "/"
parent_of(path) ==
    IF \E k \in 1..Len(path) : path[k] = "/"
    THEN SubSeq(path, 1,
                (CHOOSE k \in 1..Len(path) :
                    path[k] = "/" /\ \A m \in (k + 1)..Len(path) : path[m] # "/") - 1)
    ELSE <<>>

\* ImageFile._validate_image_extension passes
supported_extension(path) == lower(suffix(path)) \in SUPPORTED_IMAGE_EXTENSIONS

\* math.floor(a / b) and math.ceil(a / b) for a >= 0, b > 0
floor_div(a, b) == a \div b
ceil_div(a, b) == (a + b - 1) \div b

abs_diff(a, b) == IF a >= b THEN a - b ELSE b - a

\* PIL's Image.thumbnail((x, y)) on an image of size <<w, h>>: the size that
\* keeps the aspect ratio and fits the box, the image's own when it fits
thumbnail(size, box) ==
    LET w == size[1]
        h == size[2]
        x == box[1]
        y == box[2]
    IN  IF x >= w /\ y >= h THEN size
        ELSE IF x * h >= w * y
        THEN \* x / y >= aspect: x = round_aspect(y * aspect)
             LET lo == floor_div(y * w, h)
                 hi == ceil_div(y * w, h)
                 best == IF abs_diff(w * y, lo * h) <= abs_diff(w * y, hi * h) THEN lo ELSE hi
             IN  <<IF best < 1 THEN 1 ELSE best, y>>
        ELSE \* y = round_aspect(x / aspect)
             LET lo == floor_div(x * h, w)
                 hi == ceil_div(x * h, w)
                 best == IF lo = 0 THEN lo
                         ELSE IF abs_diff(w * lo, x * h) * hi <= abs_diff(w * hi, x * h) * lo
                              THEN lo ELSE hi
             IN  <<x, IF best < 1 THEN 1 ELSE best>>

\* self.image.save(out): the write fails when the directory does not exist
write_image(self, out) ==
    IF parent_of(out) \in ExistingDirs
    THEN [self EXCEPT !.files = (out :> self.image) @@ self.files]
    ELSE [self EXCEPT !.raised = "FileNotFoundError"]

\* the body of ImageFile.save (lines 204-208)
save_body(self, out_path) ==
    LET out == IF out_path = NoPath THEN self.path ELSE out_path
    IN  IF ~supported_extension(out) THEN [self EXCEPT !.raised = "ValueError"]
        ELSE write_image(self, out)

\* save with a slip: the method is not decorated with update_image
save_without_reload(self, out_path) == save_body(self, out_path)

\* ImageFile.save under the update_image decorator: result = method(...),
\* then self._load_image(), which an exception of the method skips
save(self, out_path) ==
    LET result == save_body(self, out_path)
    IN  IF result.raised # "" THEN result
        ELSE [result EXCEPT !.image = result.files[result.path]]

\* resize with a slip: the image is resized before the extension is checked
resize_then_check(self, size, out_path, keep_aspect) ==
    LET resized == [self EXCEPT !.image = IF keep_aspect THEN thumbnail(@, size) ELSE size]
    IN  IF out_path # NoPath /\ lower(suffix(out_path)) # lower(suffix(self.path))
        THEN [resized EXCEPT !.raised = "ValueError"]
        ELSE save(resized, out_path)

\* ImageFile.resize(width, height, output_path, keep_aspect)
resize(self, size, out_path, keep_aspect) ==
    IF out_path # NoPath /\ lower(suffix(out_path)) # lower(suffix(self.path))
    THEN [self EXCEPT !.raised = "ValueError"]
    ELSE save([self EXCEPT !.image = IF keep_aspect THEN thumbnail(@, size) ELSE size],
              out_path)

\* ImageFile.convert_format(new_format, output_path), for a format other
\* than ico (no sizes argument)
convert_format(self, new_format, out_path) ==
    LET given == IF out_path = NoPath THEN self.path ELSE out_path
        extension == <<".">> \o lower(new_format)
        out == IF given \in DOMAIN self.files \/ suffix(given) # <<>>
               THEN stem(given) \o extension
               ELSE given \o <<"/">> \o stem(self.path) \o extension
    IN  save(self, out)

\* the inputs of the model
ImageSource == <<"a", ".", "p", "n", "g">>
SourceSizes == {<<4, 2>>, <<3, 3>>}
Sizes == {<<2, 2>>, <<4, 4>>, <<1, 3>>}
ImageOutputPaths ==
    {NoPath,
     ImageSource,
     <<"b", ".", "p", "n", "g">>,
     <<"b", ".", "P", "N", "G">>,
     <<"b", ".", "j", "p", "g">>,
     <<"b", ".", "t", "x", "t">>,
     <<"n", "o", "d", "i", "r", "/", "b", ".", "p", "n", "g">>}
ConvertOutputPaths ==
    {NoPath, <<"b", ".", "p", "n", "g">>, <<"o", "u", "t">>, <<"n", "o", "d", "i", "r">>}
Formats == {<<"j", "p", "g">>, <<"p", "n", "g">>, <<"p", "d", "f">>}

\* ImageFile(path) on an existing image file
InitImage ==
    /\ pc = "image"
    /\ image_path = ImageSource
    /\ image \in SourceSizes
    /\ image_files = (ImageSource :> image)
    /\ image_call = [method |-> "__init__", size |-> <<>>, new_format |-> <<>>,
                     out_path |-> NoPath, keep_aspect |-> FALSE, raised |-> "",
                     path_before |-> image_path, image_before |-> image,
                     files_before |-> image_files]
    /\ image_calls = 0
    /\ docx_state = "ok"
    /\ docx_document = <<>>
    /\ output_path = NoPath
    /\ runs = <<>>
    /\ raw_text = <<>>
    /\ Idle
    /\ HeapIdle /\ FileIdle

\* the object and the file system as the argument of a method
Self == [path |-> image_path, image |-> image, files |-> image_files, raised |-> ""]

\* the state after a call that ended as the record after says
ImageCallEnds(method, size, new_format, out_path, keep_aspect, after) ==
    /\ image_calls < MaxImageCalls
    /\ image_path' = after.path
    /\ image' = after.image
    /\ image_files' = after.files
    /\ image_call' = [method |-> method, size |-> size, new_format |-> new_format,
                      out_path |-> out_path, keep_aspect |-> keep_aspect,
                      raised |-> after.raised,
                      path_before |-> image_path, image_before |-> image,
                      files_before |-> image_files]
    /\ image_calls' = image_calls + 1
    /\ UNCHANGED <<heap_level, file_level>>
    /\ UNCHANGED <<symbol_level, inputs, pc, document, contents, render_state, written, error,
                   run_level>>

\* image.resize(width, height, output_path=..., keep_aspect=...)
Resize ==
    /\ pc = "image"
    /\ \E size \in Sizes, out_path \in ImageOutputPaths, keep_aspect \in BOOLEAN :
          ImageCallEnds("resize", size, <<>>, out_path, keep_aspect,
                        resize(Self, size, out_path, keep_aspect))

\* image.convert_format(new_format, output_path=...)
ConvertFormat ==
    /\ pc = "image"
    /\ \E new_format \in Formats, out_path \in ConvertOutputPaths :
          ImageCallEnds("convert_format", <<>>, new_format, out_path, FALSE,
                        convert_format(Self, new_format, out_path))

\* image.save(output_path=...)
Save ==
    /\ pc = "image"
    /\ \E out_path \in ImageOutputPaths :
          ImageCallEnds("save", <<>>, <<>>, out_path, FALSE, save(Self, out_path))

NextImage == Resize \/ ConvertFormat \/ Save

SpecImage == InitImage /\ [][NextImage]_vars

(***************************************************************************)
(* File (core/file.py).  The file system is a set of directories and a      *)
(* function from the paths of the files that exist to their contents; self  *)
(* is [path, files, raised, result].  Paths are resolved already.           *)
(***************************************************************************)
\* the directories that exist
FileDirs == {<<"d">>, <<"e">>}

is_dir(path) == path \in FileDirs

\* Path(path).name: what is after the last "/"
name_of(path) == SubSeq(path, Len(parent_of(path)) + (IF parent_of(path) = <<>> THEN 1 ELSE 2),
                        Len(path))

\* parent / name
joinpath(parent, name) == parent \o <<"/">> \o name

\* str.endswith
endswith(s, postfix) ==
    Len(postfix) <= Len(s) /\ SubSeq(s, Len(s) - Len(postfix) + 1, Len(s)) = postfix

\* shutil.move(src, dst) for a file src: into dst when dst is a directory
\* (an error when the name is taken there), else to the path dst itself
shutil_move(self, src, dst) ==
    LET real_dst == IF is_dir(dst) THEN joinpath(dst, name_of(src)) ELSE dst
    IN  IF src \notin DOMAIN self.files THEN [self EXCEPT !.raised = "FileNotFoundError"]
        ELSE IF is_dir(dst) /\ real_dst \in DOMAIN self.files
        THEN [self EXCEPT !.raised = "shutil.Error"]
        ELSE IF parent_of(real_dst) \notin FileDirs
        THEN [self EXCEPT !.raised = "FileNotFoundError"]
        ELSE [self EXCEPT !.files =
                  (real_dst :> self.files[src])
                      @@ [f \in DOMAIN self.files \ {src} |-> self.files[f]]]

\* File.move(destination_path)
move(self, destination_path) ==
    LET moved == shutil_move(self, self.path, destination_path)
    IN  IF moved.raised # "" THEN moved
        ELSE [moved EXCEPT !.path = destination_path]

\* File.rename(new_name)
rename(self, new_name) ==
    LET extension == suffix(name_of(self.path))
        name == IF ~endswith(new_name, extension) THEN new_name \o extension ELSE new_name
    IN  move(self, joinpath(parent_of(self.path), name))

\* File.read()
read(self) ==
    IF self.path \in DOMAIN self.files THEN [self EXCEPT !.result = self.files[self.path]]
    ELSE IF is_dir(self.path) THEN [self EXCEPT !.raised = "IsADirectoryError"]
    ELSE [self EXCEPT !.raised = "FileNotFoundError"]

\* File.delete()
delete(self) ==
    IF self.path \in DOMAIN self.files
    THEN [self EXCEPT !.files = [f \in DOMAIN self.files \ {self.path} |-> self.files[f]]]
    ELSE IF is_dir(self.path) THEN [self EXCEPT !.raised = "IsADirectoryError"]
    ELSE [self EXCEPT !.raised = "FileNotFoundError"]

\* the inputs of the model
FileSource == <<"d", "/", "a", ".", "t", "x", "t">>
OtherFile == <<"e", "/", "a", ".", "t", "x", "t">>
NewNames ==
    {<<"b">>, <<"b", ".", "t", "x", "t">>, <<"b", ".", "m", "d">>, <<"a", ".", "t", "x", "t">>}
Destinations ==
    {<<"e">>,
     <<"e", "/", "b", ".", "t", "x", "t">>,
     <<"d", "/", "b", ".", "t", "x", "t">>,
     OtherFile,
     <<"n", "o", "d", "i", "r", "/", "b", ".", "t", "x", "t">>}

\* File(path) on an existing file; a file of the same name may exist in e
InitFile ==
    /\ pc = "file"
    /\ file_path = FileSource
    /\ fs_files \in {(FileSource :> "x"), (FileSource :> "x") @@ (OtherFile :> "y")}
    /\ file_call = [method |-> "__init__", argument |-> <<>>, raised |-> "", result |-> "",
                    path_before |-> file_path, files_before |-> fs_files]
    /\ file_calls = 0
    /\ docx_state = "ok"
    /\ docx_document = <<>>
    /\ output_path = NoPath
    /\ runs = <<>>
    /\ raw_text = <<>>
    /\ Idle
    /\ HeapIdle /\ ImageIdle

\* the object and the file system as the argument of a method
SelfFile == [path |-> file_path, files |-> fs_files, raised |-> "", result |-> ""]

\* the state after a call that ended as the record after says
FileCallEnds(method, argument, after) ==
    /\ file_calls < MaxFileCalls
    /\ file_path' = after.path
    /\ fs_files' = after.files
    /\ file_call' = [method |-> method, argument |-> argument, raised |-> after.raised,
                     result |-> after.result,
                     path_before |-> file_path, files_before |-> fs_files]
    /\ file_calls' = file_calls + 1
    /\ UNCHANGED <<heap_level, image_level>>
    /\ UNCHANGED <<symbol_level, inputs, pc, document, contents, render_state, written, error,
                   run_level>>

\* file.rename(new_name), called while the object's file exists
Rename ==
    /\ pc = "file"
    /\ file_path \in DOMAIN fs_files
    /\ \E new_name \in NewNames : FileCallEnds("rename", new_name, rename(SelfFile, new_name))

\* file.move(destination_path), called while the object's file exists
Move ==
    /\ pc = "file"
    /\ file_path \in DOMAIN fs_files
    /\ \E destination_path \in Destinations :
          FileCallEnds("move", destination_path, move(SelfFile, destination_path))

\* file.read()
Read ==
    /\ pc = "file"
    /\ FileCallEnds("read", <<>>, read(SelfFile))

\* file.delete()
Delete ==
    /\ pc = "file"
    /\ FileCallEnds("delete", <<>>, delete(SelfFile))

NextFile == Rename \/ Move \/ Read \/ Delete

SpecFile == InitFile /\ [][NextFile]_vars

TypeOK ==
    /\ pc \in {"start", "opened", "loaded", "stripped", "grouped", "render", "built",
               "done", "raised", "runs", "styled", "processed", "text", "normalized",
               "heap", "heap_stripped", "heap_grouped", "heap_rendered", "image", "file"}
    /\ error \in {"", "FileNotFoundError", "PackageNotFoundError", "ValueError"}
    /\ font_style \in {"", "bold", "italic", "normal"}
    /\ idx \in 0..(MaxParas + 1)

(***************************************************************************)
(* Properties of _strip_content_before_date.                               *)
(***************************************************************************)
\* _strip_content_before_date, _group_consecutive_paragraphs has just returned
StripDone == pc = "stripped"
GroupDone == pc = "grouped"

\* paragraph i of content is not empty and its text holds a date
IsDateParagraph(content, i) ==
    ~content[i].is_empty /\ date_pattern(content[i].text)

DateParagraphs(content) == {i \in 1..Len(content) : IsDateParagraph(content, i)}

\* the least element of a non-empty set of numbers
Least(S) == CHOOSE x \in S : \A y \in S : x <= y

ScenarioA == <<PTitle, PEmpty, PDate, PEmpty, PHello>>

NonEmptyTexts(content) ==
    LET kept == SelectSeq(content, LAMBDA p : ~p.is_empty)
    IN  [k \in 1..Len(kept) |-> kept[k].text]

\* C1: when some non-empty paragraph holds a date, the result of
\* _strip_content_before_date is exactly the paragraphs after the first such
\* paragraph, in their order; Scenario A leaves "Hello world." as the only
\* non-empty paragraph.
C1_StripAfterFirstDate ==
    (StripDone /\ DateParagraphs(loaded) # {}) =>
        LET first == Least(DateParagraphs(loaded))
        IN  /\ Len(stripped) = Len(loaded) - first
            /\ \A k \in 1..Len(stripped) : stripped[k] = loaded[first + k]
            /\ (docx_document = ScenarioA =>
                    NonEmptyTexts(stripped)
                        = <<(<<"H", "e", "l", "l", "o", " ", "w", "o", "r", "l", "d", ".">>)>>)

\* Scenario A has been stripped
C1_Witness ==
    /\ pc = "stripped"
    /\ docx_document = ScenarioA
    /\ Len(loaded) = 5
    /\ Len(stripped) = 2
    /\ stripped[1].is_empty
    /\ stripped[2] = loaded[5]

\* C2: when no non-empty paragraph holds a date, _strip_content_before_date
\* returns its input: the same paragraphs in the same order.
C2_StripFailsOpen ==
    (StripDone /\ DateParagraphs(loaded) = {}) => stripped = loaded

\* a document of several paragraphs, none with a date, has been stripped
C2_Witness ==
    /\ pc = "stripped"
    /\ DateParagraphs(loaded) = {}
    /\ Len(loaded) >= 3
    /\ \E i \in 1..Len(loaded) : ~loaded[i].is_empty
    /\ stripped = loaded

(***************************************************************************)
(* Properties of _group_consecutive_paragraphs.                            *)
(***************************************************************************)
\* an interior empty paragraph with a non-empty paragraph on each side
IsSeparator(content, i) ==
    /\ 1 < i
    /\ i < Len(content)
    /\ content[i].is_empty
    /\ ~content[i - 1].is_empty
    /\ ~content[i + 1].is_empty

Separators(content) == {i \in 1..Len(content) : IsSeparator(content, i)}

\* C3: for a paragraph sequence without an interior empty paragraph whose
\* two neighbours are non-empty, _group_consecutive_paragraphs returns its
\* input, empty paragraphs included.
C3_GroupNoOp ==
    (GroupDone /\ Separators(stripped) = {}) => grouped = stripped

\* adjacent non-empty paragraphs and an empty paragraph, but no separator,
\* have gone through the grouper
C3_Witness ==
    /\ pc = "grouped"
    /\ Separators(stripped) = {}
    /\ \E i \in 1..Len(stripped) : stripped[i].is_empty
    /\ \E i \in 1..(Len(stripped) - 1) : ~stripped[i].is_empty /\ ~stripped[i + 1].is_empty
    /\ grouped = stripped

\* the first paragraphs of the maximal blocks of non-empty paragraphs
BlockStarts(content) ==
    {i \in 1..Len(content) :
        ~content[i].is_empty /\ (i = 1 \/ content[i - 1].is_empty)}

\* the last paragraph of the maximal block that starts at s
BlockEnd(content, s) ==
    CHOOSE e \in s..Len(content) :
        /\ \A m \in s..e : ~content[m].is_empty
        /\ (e = Len(content) \/ content[e + 1].is_empty)

\* the k-th least element of S
Nth(S, k) == CHOOSE x \in S : Cardinality({y \in S : y < x}) = k - 1

\* C4: when grouping is triggered, the output has exactly one paragraph per
\* maximal block of consecutive non-empty input paragraphs, no empty
\* paragraph survives, and every output paragraph has is_empty = false.
C4_OneGroupPerBlock ==
    (GroupDone /\ Separators(stripped) # {}) =>
        /\ Len(grouped) = Cardinality(BlockStarts(stripped))
        /\ \A k \in 1..Len(grouped) :
              /\ grouped[k].is_empty = FALSE
              /\ strip(grouped[k].text) # <<>>

\* a triggered grouping with a block of two paragraphs and a block of one
C4_Witness ==
    /\ pc = "grouped"
    /\ Separators(stripped) # {}
    /\ Len(stripped) = 4
    /\ \E i \in 1..Len(stripped) : stripped[i].is_empty
    /\ Len(grouped) = 2
    /\ \E s \in BlockStarts(stripped) : BlockEnd(stripped, s) = s + 1

\* the texts of paragraphs s..e of content joined with a blank
BlockText(content, s, e) ==
    join_sep(<<" ">>, [m \in 1..(e - s + 1) |-> content[s + m - 1].text])

\* the elements the renderer makes of the non-empty paragraphs of content
ElementsOf(content) ==
    LET kept == SelectSeq(content, LAMBDA p : ~p.is_empty)
    IN  [k \in 1..Len(kept) |->
            jsx_element_of(_get_paragraph_font_style(kept[k].runs),
                           text_align_of(kept[k].alignment),
                           _process_paragraph_text(kept[k].runs))]

\* C5: the rendered blocks follow the order of the input paragraphs: what is
\* kept of the input is its tail after the preamble, the k-th group is the
\* one of the k-th block of that tail (its text and alignment start with the
\* block's first member), and the k-th rendered block is the one of the k-th
\* non-empty paragraph the grouper returned.
C5_OrderPreserved ==
    (pc = "built") =>
        /\ Len(stripped) <= Len(loaded)
        /\ stripped = SubSeq(loaded, Len(loaded) - Len(stripped) + 1, Len(loaded))
        /\ IF Separators(stripped) = {}
           THEN grouped = stripped
           ELSE /\ Len(grouped) = Cardinality(BlockStarts(stripped))
                /\ \A k \in 1..Len(grouped) :
                      LET s == Nth(BlockStarts(stripped), k)
                      IN  /\ grouped[k].alignment = stripped[s].alignment
                          /\ grouped[k].text = BlockText(stripped, s, BlockEnd(stripped, s))
        /\ jsx_paragraphs = ElementsOf(grouped)

\* two different groups, one of several members, have been rendered after a
\* preamble was removed
C5_Witness ==
    /\ pc = "built"
    /\ Len(stripped) < Len(loaded)
    /\ Separators(stripped) # {}
    /\ Len(grouped) < Len(stripped)
    /\ Len(jsx_paragraphs) = 2
    /\ jsx_paragraphs[1] # jsx_paragraphs[2]
    /\ \E k \in 1..Len(grouped) : Len(grouped[k].runs) > 2

\* the number of runs of paragraphs s..(m - 1) of content
RECURSIVE RunsBefore(_, _, _)
RunsBefore(content, s, m) ==
    IF m <= s THEN 0
    ELSE RunsBefore(content, s, m - 1) + Len(content[m - 1].runs)

\* where the runs of member m start in the group of block s: after the runs
\* of the earlier members and one line break per earlier member
MemberOffset(content, s, m) == RunsBefore(content, s, m) + (m - s)

\* C6: the runs of a group of k members are the members' runs in member
\* order (the later members' texts trimmed), with exactly k - 1 line-break
\* runs: one right before the runs of each member but the first, none before
\* the first or after the last member; a line-break run is neither bold nor
\* italic.
C6_GroupRuns ==
    (GroupDone /\ Separators(stripped) # {}) =>
        \A k \in 1..Len(grouped) :
            LET s == Nth(BlockStarts(stripped), k)
                e == BlockEnd(stripped, s)
                group_runs == grouped[k].runs
            IN  /\ Len(group_runs) = RunsBefore(stripped, s, e + 1) + (e - s)
                /\ \A m \in s..e :
                      LET at == MemberOffset(stripped, s, m)
                          member_runs == stripped[m].runs
                      IN  /\ m > s =>
                                /\ group_runs[at].text = BreakMarkerText
                                /\ group_runs[at].bold = FALSE
                                /\ group_runs[at].italic = FALSE
                          /\ \A r \in 1..Len(member_runs) :
                                /\ group_runs[at + r].bold = member_runs[r].bold
                                /\ group_runs[at + r].italic = member_runs[r].italic
                                /\ group_runs[at + r].text =
                                       IF m = s THEN member_runs[r].text
                                       ELSE strip(member_runs[r].text)

\* a group of three members, one of them of two runs, and a group of one
C6_Witness ==
    /\ pc = "grouped"
    /\ Separators(stripped) # {}
    /\ \E k \in 1..Len(grouped) :
          LET s == Nth(BlockStarts(stripped), k)
          IN  /\ BlockEnd(stripped, s) = s + 2
              /\ Len(grouped[k].runs) >= 6
              /\ Cardinality({r \in 1..Len(grouped[k].runs) :
                                  grouped[k].runs[r] = BreakMarkerRun}) = 2
    /\ \E k \in 1..Len(grouped) :
          BlockEnd(stripped, Nth(BlockStarts(stripped), k)) = Nth(BlockStarts(stripped), k)

\* the extracted "Line one." and "Line two." paragraphs
LineOne == _basic_parse_paragraph(PLineOne)
LineTwo == _basic_parse_paragraph(PLineTwo)

\* the runs of "Line one.", a line break, and the trimmed runs of "Line two."
LineOneBreakLineTwo ==
    <<[text |-> <<"L", "i", "n", "e", " ", "o", "n", "e", ".">>, bold |-> FALSE, italic |-> FALSE],
      [text |-> <<"<", "b", "r", ">", "<", "/", "b", "r", ">", "\n">>, bold |-> FALSE, italic |-> FALSE],
      [text |-> <<"L", "i", "n", "e">>, bold |-> TRUE, italic |-> FALSE],
      [text |-> <<"t", "w", "o", ".">>, bold |-> TRUE, italic |-> FALSE]>>

\* sub occurs in s as a block of adjacent elements
HasBlock(s, sub) ==
    \E k \in 1..(Len(s) - Len(sub) + 1) : SubSeq(s, k, k + Len(sub) - 1) = sub

\* "Line one." at i, an empty paragraph, "Line two.", and a non-empty
\* paragraph on each side of the three
SeparatedLines(content, i) ==
    /\ 1 < i
    /\ i + 3 <= Len(content)
    /\ ~content[i - 1].is_empty
    /\ content[i] = LineOne
    /\ content[i + 1].is_empty
    /\ content[i + 2] = LineTwo
    /\ ~content[i + 3].is_empty

\* "Line one." at i and "Line two." right after it
AdjacentLines(content, i) ==
    /\ i + 1 <= Len(content)
    /\ content[i] = LineOne
    /\ content[i + 1] = LineTwo

\* C7 as stated (Scenario B): "Line one." and "Line two." with an empty
\* paragraph between them and non-empty paragraphs around them are merged
\* into one group with the line break between them.
C7_SeparatedLinesMerged ==
    (GroupDone /\ \E i \in 1..Len(stripped) : SeparatedLines(stripped, i)) =>
        \E k \in 1..Len(grouped) : HasBlock(grouped[k].runs, LineOneBreakLineTwo)

\* C7 amended: when grouping is triggered, "Line one." and "Line two." that
\* are adjacent are merged into one group with the line break run between
\* their runs; with an empty paragraph between them, "Line one." ends one
\* group and "Line two." starts the next.
C7_AdjacentLinesMerged ==
    GroupDone =>
        /\ (/\ Separators(stripped) # {}
            /\ \E i \in 1..Len(stripped) : AdjacentLines(stripped, i)) =>
                \E k \in 1..Len(grouped) : HasBlock(grouped[k].runs, LineOneBreakLineTwo)
        /\ \A i \in 1..Len(stripped) :
              SeparatedLines(stripped, i) =>
                  LET k == Cardinality({s \in BlockStarts(stripped) : s <= i})
                      last == grouped[k].runs[Len(grouped[k].runs)]
                  IN  /\ k + 1 <= Len(grouped)
                      /\ last.text = LineOne.runs[1].text
                      /\ SubSeq(grouped[k + 1].runs, 1, 2) = LineTwo.runs

\* "Line one." and "Line two." are adjacent and were merged
C7_Witness ==
    /\ pc = "grouped"
    /\ Separators(stripped) # {}
    /\ \E i \in 1..Len(stripped) : AdjacentLines(stripped, i)
    /\ \E k \in 1..Len(grouped) : HasBlock(grouped[k].runs, LineOneBreakLineTwo)

(***************************************************************************)
(* Properties of _get_paragraph_font_style and _process_paragraph_text.    *)
(***************************************************************************)
\* the runs whose trimmed text is not empty
Visible(rs) == {k \in 1..Len(rs) : strip(rs[k].text) # <<>>}

\* C8: _get_paragraph_font_style returns one of bold, italic and normal:
\* normal when no run has non-empty trimmed text; else bold iff all the runs
\* with non-empty trimmed text are bold; else italic iff all of them are
\* italic; else normal.
C8_FontStyle ==
    (pc \in {"styled", "processed"}) =>
        /\ font_style \in {"bold", "italic", "normal"}
        /\ Visible(runs) = {} => font_style = "normal"
        /\ Visible(runs) # {} =>
              /\ font_style = "bold" <=> \A k \in Visible(runs) : runs[k].bold
              /\ font_style = "italic" <=>
                    /\ ~(\A k \in Visible(runs) : runs[k].bold)
                    /\ \A k \in Visible(runs) : runs[k].italic

\* runs that are all bold and italic, next to a blank run that is neither
C8_Witness ==
    /\ pc = "styled"
    /\ Len(runs) = 3
    /\ Cardinality(Visible(runs)) = 2
    /\ \A k \in Visible(runs) : runs[k].bold /\ runs[k].italic
    /\ \E k \in 1..Len(runs) : ~runs[k].bold /\ ~runs[k].italic
    /\ font_style = "bold"

\* the formatting run k needs, given the paragraph's font style
NeedsItalic(k) == runs[k].italic /\ font_style # "italic"
NeedsBold(k) == runs[k].bold /\ font_style # "bold"
SameNeeds(k, m) == NeedsItalic(k) = NeedsItalic(m) /\ NeedsBold(k) = NeedsBold(m)

\* the first runs of the maximal blocks of adjacent runs with the same needs
RunBlockStarts == {k \in 1..Len(runs) : k = 1 \/ ~SameNeeds(k, k - 1)}

RunBlockEnd(s) ==
    CHOOSE e \in s..Len(runs) :
        /\ \A m \in s..e : SameNeeds(m, s)
        /\ (e = Len(runs) \/ ~SameNeeds(e + 1, s))

\* the number of places where sub occurs in s
Occurrences(sub, s) ==
    Cardinality({k \in 1..(Len(s) - Len(sub) + 1) : SubSeq(s, k, k + Len(sub) - 1) = sub})

\* the block starting at s as one text in at most one <em> and one <b> pair
BlockPart(s) ==
    LET text == join([m \in 1..(RunBlockEnd(s) - s + 1) |->
                          _normalize_symbols(runs[s + m - 1].text)])
        inner == IF NeedsItalic(s) THEN EmOpen \o text \o EmClose ELSE text
    IN  IF NeedsBold(s) THEN BOpen \o inner \o BClose ELSE inner

\* every maximal block is one part, and the body has one tag pair per block
\* that needs it
OnePartPerBlock ==
    /\ Len(merged_parts) = Cardinality(RunBlockStarts)
    /\ \A k \in 1..Len(merged_parts) : merged_parts[k] = BlockPart(Nth(RunBlockStarts, k))
    /\ Occurrences(BOpen, processed_text)
           = Cardinality({s \in RunBlockStarts : NeedsBold(s)})
    /\ Occurrences(BClose, processed_text)
           = Cardinality({s \in RunBlockStarts : NeedsBold(s)})
    /\ Occurrences(EmOpen, processed_text)
           = Cardinality({s \in RunBlockStarts : NeedsItalic(s)})
    /\ Occurrences(EmClose, processed_text)
           = Cardinality({s \in RunBlockStarts : NeedsItalic(s)})

\* C9 as stated: every maximal block of adjacent runs with the same
\* (needs_italic, needs_bold) is rendered as one concatenated text in at
\* most one <em> and one <b> pair, so the body has as many <b> (<em>) pairs
\* as there are maximal blocks that need bold (italic).
C9_MergeCorrectness ==
    (pc = "processed") => OnePartPerBlock

\* no run's normalized text is exactly "<br></br>"
NoLineBreakText == \A k \in 1..Len(runs) : _normalize_symbols(runs[k].text) # LineBreakText

\* C9 amended: the same, for the run lists in which no run's normalized
\* text is exactly "<br></br>".
C9_MergeWithoutLineBreakText ==
    (pc = "processed" /\ NoLineBreakText) => OnePartPerBlock

\* two adjacent bold runs and a plain one were rendered with one <b> pair
C9_Witness ==
    /\ pc = "processed"
    /\ NoLineBreakText
    /\ Len(runs) = 3
    /\ NeedsBold(1) /\ NeedsBold(2) /\ ~NeedsBold(3)
    /\ SameNeeds(1, 2)
    /\ runs[1].text # <<>> /\ runs[2].text # <<>>
    /\ Len(merged_parts) = 2
    /\ Occurrences(BOpen, processed_text) = 1

\* C10: the line break run the grouper inserts is never merged with the
\* runs next to it: each is a part of its own in merged_parts, emitted as
\* it is.
C10_LineBreakOwnPart ==
    LET inserted == {k \in 1..Len(runs) : runs[k] = BreakMarkerRun}
        own == {p \in 1..Len(merged_parts) :
                    merged_parts[p] = _normalize_symbols(BreakMarkerText)}
    IN  Cardinality(own) = Cardinality(inserted)

\* Scenario E: the runs [bold "A"], [bold "B"]
ScenarioE ==
    <<[text |-> <<"A">>, bold |-> TRUE, italic |-> FALSE],
      [text |-> <<"B">>, bold |-> TRUE, italic |-> FALSE]>>

\* C11: a run needs bold iff it is bold and the paragraph's style is not
\* bold, italic iff it is italic and the style is not italic; so the body of
\* a paragraph of style bold has no <b> tag, the body of a paragraph of
\* style italic no <em> tag, and [bold "A"], [bold "B"] render as "AB".
C11_RedundantTagsSuppressed ==
    (pc = "processed") =>
        /\ \A k \in 1..Len(runs) :
              /\ processed_runs_of(runs)[k].needs_bold = (runs[k].bold /\ font_style # "bold")
              /\ processed_runs_of(runs)[k].needs_italic
                     = (runs[k].italic /\ font_style # "italic")
        /\ font_style = "bold" =>
              Occurrences(BOpen, processed_text) = 0 /\ Occurrences(BClose, processed_text) = 0
        /\ font_style = "italic" =>
              Occurrences(EmOpen, processed_text) = 0 /\ Occurrences(EmClose, processed_text) = 0
        /\ runs = ScenarioE => processed_text = <<"A", "B">>

\* Scenario E has been rendered
C11_Witness ==
    /\ pc = "processed"
    /\ runs = ScenarioE
    /\ font_style = "bold"
    /\ processed_text = <<"A", "B">>

\* s starts with prefix, ends with postfix
StartsWith(s, prefix) == Len(prefix) <= Len(s) /\ SubSeq(s, 1, Len(prefix)) = prefix
EndsWith(s, postfix) ==
    Len(postfix) <= Len(s) /\ SubSeq(s, Len(s) - Len(postfix) + 1, Len(s)) = postfix

\* C12: a merged group that needs italic and bold is rendered as
\* <b><em>text</em></b>: every part with both wrappers has the bold one
\* outside, the body never has a <b> right inside an <em>, and (when no run
\* takes the line-break branch) every block that needs both is such a part.
C12_BoldOutsideItalic ==
    (pc = "processed") =>
        /\ \A p \in 1..Len(merged_parts) :
              (Occurrences(EmOpen, merged_parts[p]) > 0 /\ Occurrences(BOpen, merged_parts[p]) > 0)
                  => /\ StartsWith(merged_parts[p], BOpen \o EmOpen)
                     /\ EndsWith(merged_parts[p], EmClose \o BClose)
        /\ Occurrences(EmOpen \o BOpen, processed_text) = 0
        /\ Occurrences(BClose \o EmClose, processed_text) = 0
        /\ NoLineBreakText =>
              \A k \in 1..Len(merged_parts) :
                  LET s == Nth(RunBlockStarts, k)
                  IN  (NeedsItalic(s) /\ NeedsBold(s)) =>
                          /\ StartsWith(merged_parts[k], BOpen \o EmOpen)
                          /\ EndsWith(merged_parts[k], EmClose \o BClose)

\* a block that needs both wrappers, next to a plain run, has been rendered
C12_Witness ==
    /\ pc = "processed"
    /\ NoLineBreakText
    /\ Len(runs) = 2
    /\ NeedsItalic(1) /\ NeedsBold(1)
    /\ runs[1].text = <<"a">>
    /\ merged_parts[1] = BOpen \o EmOpen \o <<"a">> \o EmClose \o BClose

\* the escaping table, one character at a time
EntityOf(c) ==
    CASE c = "&" -> <<"&", "a", "m", "p", ";">>
      [] c \in {"\"", "U+201C", "U+201D"} -> <<"&", "q", "u", "o", "t", ";">>
      [] c \in {"U+0027", "U+2018", "U+2019", "U+0060"} -> <<"&", "a", "p", "o", "s", ";">>
      [] c = "U+00A0" -> <<"&", "n", "b", "s", "p", ";">>
      [] c = "U+2013" -> <<"&", "n", "d", "a", "s", "h", ";">>
      [] c = "U+2014" -> <<"&", "m", "d", "a", "s", "h", ";">>
      [] c = "U+00A9" -> <<"&", "c", "o", "p", "y", ";">>
      [] c = "U+00AE" -> <<"&", "r", "e", "g", ";">>
      [] c = "U+2122" -> <<"&", "t", "r", "a", "d", "e", ";">>
      [] c = "U+00B0" -> <<"&", "d", "e", "g", ";">>
      [] OTHER -> <<c>>

RECURSIVE EscapedText(_)
EscapedText(s) == IF s = <<>> THEN <<>> ELSE EntityOf(Head(s)) \o EscapedText(Tail(s))

\* He said &quot;hi&quot; &amp; left.
ScenarioCEscaped ==
    <<"H", "e", " ", "s", "a", "i", "d", " ", "&", "q", "u", "o", "t", ";", "h", "i",
      "&", "q", "u", "o", "t", ";", " ", "&", "a", "m", "p", ";", " ", "l", "e", "f", "t", ".">>

RECURSIVE Untagged(_)
Untagged(s) ==
    IF s = <<>> THEN <<>>
    ELSE IF \E t \in {EmOpen, EmClose, BOpen, BClose} : StartsWith(s, t)
         THEN LET t == CHOOSE t \in {EmOpen, EmClose, BOpen, BClose} : StartsWith(s, t)
              IN  Untagged(SubSeq(s, Len(t) + 1, Len(s)))
         ELSE <<Head(s)>> \o Untagged(Tail(s))

\* the texts of the runs, each escaped once, one after the other
RECURSIVE EscapedRuns(_)
EscapedRuns(rs) ==
    IF rs = <<>> THEN <<>> ELSE EscapedText(Head(rs).text) \o EscapedRuns(Tail(rs))

HasTableChar(t) == \E k \in 1..Len(t) : t[k] \in TableChars

\* C14 as stated: normalizing the normalized text of a run changes nothing
C14_NormalizeIdempotent ==
    (pc = "processed") =>
        \A k \in 1..Len(runs) :
            _normalize_symbols(_normalize_symbols(runs[k].text)) = _normalize_symbols(runs[k].text)

\* C14, amended: within one rendering the escaping table is applied exactly
\* once to the text of each run and never to the rendered output (the body
\* without its tags is the escaped texts of the runs), and normalizing a
\* second time leaves the text unchanged exactly when the text has no
\* character of the table: otherwise the "&" of each entity is escaped again.
C14_EscapedOnce ==
    (pc = "processed") =>
        /\ Untagged(processed_text) = EscapedRuns(runs)
        /\ \A k \in 1..Len(runs) :
              (_normalize_symbols(_normalize_symbols(runs[k].text))
                   = _normalize_symbols(runs[k].text))
                  <=> ~HasTableChar(runs[k].text)

\* a run with the text "&" has been rendered as &amp;
C14_Witness ==
    /\ pc = "processed"
    /\ Len(runs) = 1
    /\ runs[1].text = <<"&">>
    /\ processed_text = <<"&", "a", "m", "p", ";">>

\* the paragraphs that reach the renderer and are not empty
Rendered == {k \in 1..Len(grouped) : ~grouped[k].is_empty}

\* the fixed text that opens an element, and the blank-line separator
ElementOpen == "          <WrittenContentParagraphElement\n            fontStyle=\""
ElementClose == "\n          </WrittenContentParagraphElement>"
BlankLine == "\n\n"

\* C15: the renderer emits one element per paragraph with is_empty = false
\* and none for an empty one, in paragraph order (element k shows the k-th
\* non-empty paragraph), and the output is the fixed opening, the elements
\* separated by a blank line, and the fixed closing.
C15_OneElementPerNonEmptyParagraph ==
    (pc = "built") =>
        LET n == Cardinality(Rendered)
        IN  /\ Len(jsx_paragraphs) = n
            /\ \A k \in 1..Len(jsx_paragraphs) :
                  LET e == jsx_paragraphs[k]
                      p == grouped[Nth(Rendered, k)]
                  IN  /\ e[1] = ElementOpen
                      /\ e[Len(e)] = ElementClose
                      /\ e[2] = _get_paragraph_font_style(p.runs)
                      /\ SubSeq(e, 6, Len(e) - 1) = _process_paragraph_text(p.runs)
            /\ Occurrences(<<ElementOpen>>, jsx_output) = n
            /\ Occurrences(<<BlankLine>>, jsx_output) = IF n = 0 THEN 0 ELSE n - 1
            /\ \A k \in 1..Len(jsx_output) :
                  jsx_output[k] = BlankLine => /\ jsx_output[k - 1] = ElementClose
                                               /\ jsx_output[k + 1] = ElementOpen
            /\ Len(jsx_output) >= 2
            /\ Head(jsx_output) = Head(jsx_output_of(<<>>))
            /\ jsx_output[Len(jsx_output)] = jsx_output_of(<<>>)[2]

\* an empty paragraph reached the renderer ahead of two rendered ones
C15_Witness ==
    /\ pc = "built"
    /\ Len(grouped) = 3
    /\ grouped[1].is_empty
    /\ ~grouped[2].is_empty
    /\ ~grouped[3].is_empty
    /\ Len(jsx_paragraphs) = 2
    /\ Occurrences(<<BlankLine>>, jsx_output) = Len(jsx_paragraphs) - 1

\* the values the template's textAlign takes
TextAligns == {"left", "center", "right", "justify"}

\* the textAlign the renderer is to emit for an alignment of the content
EmittedAlign(alignment) ==
    CASE alignment = "justified" -> "justify"
      [] alignment \in {"left", "center", "right"} -> alignment
      [] OTHER -> "left"

\* C16: the textAlign of every rendered element is one of left, center,
\* right, justify: "justified" is emitted as "justify", left, center and
\* right unchanged; an alignment outside the four values would be
\* emitted as "left" (no paragraph of the extractor has one).
C16_TextAlign ==
    (pc = "built") =>
        /\ \A k \in 1..Len(jsx_paragraphs) :
              /\ jsx_paragraphs[k][4] \in TextAligns
              /\ jsx_paragraphs[k][4] = EmittedAlign(grouped[Nth(Rendered, k)].alignment)
        /\ \A k \in 1..Len(docx_document) :
              docx_document[k].alignment \notin TextAligns \cup {"justified"}
                  => text_align_of(docx_document[k].alignment) = "left"

\* a justified paragraph has been rendered with textAlign="justify"
C16_Witness ==
    /\ pc = "built"
    /\ \E k \in 1..Len(jsx_paragraphs) :
          /\ grouped[Nth(Rendered, k)].alignment = "justified"
          /\ jsx_paragraphs[k][4] = "justify"

\* C17 as stated: every extracted paragraph has an alignment in
\* {left, center, right, justify}
C17_AlignmentInTemplateSet ==
    (pc = "loaded") => \A k \in 1..Len(loaded) : loaded[k].alignment \in TextAligns

\* C17, amended: the extractor maps every source alignment to the four
\* values left, center, right, justified (LEFT, CENTER, RIGHT, JUSTIFY in
\* this order), and an absent or any other source alignment to left.
C17_ExtractedAlignment ==
    (pc = "loaded") =>
        /\ Len(loaded) = Len(docx_document)
        /\ \A k \in 1..Len(loaded) :
              LET source == docx_document[k].alignment
              IN  /\ loaded[k].alignment \in {"left", "center", "right", "justified"}
                  /\ source = "LEFT" => loaded[k].alignment = "left"
                  /\ source = "CENTER" => loaded[k].alignment = "center"
                  /\ source = "RIGHT" => loaded[k].alignment = "right"
                  /\ source = "JUSTIFY" => loaded[k].alignment = "justified"
                  /\ source \notin {"LEFT", "CENTER", "RIGHT", "JUSTIFY"}
                         => loaded[k].alignment = "left"

\* a JUSTIFY, an unrecognized and an absent alignment have been extracted
C17_Witness ==
    /\ pc = "loaded"
    /\ \E k \in 1..Len(loaded) :
          docx_document[k].alignment = "JUSTIFY" /\ loaded[k].alignment = "justified"
    /\ \E k \in 1..Len(loaded) :
          docx_document[k].alignment = "DISTRIBUTE" /\ loaded[k].alignment = "left"
    /\ \E k \in 1..Len(loaded) :
          docx_document[k].alignment = "None" /\ loaded[k].alignment = "left"

\* C18: when the grouping is done, the alignment of every group is that of
\* the first paragraph of its block, whatever the later ones have.
C18_GroupAlignment ==
    (pc = "grouped" /\ Separators(stripped) # {}) =>
        /\ Len(grouped) = Cardinality(BlockStarts(stripped))
        /\ \A k \in 1..Len(grouped) :
              grouped[k].alignment = stripped[Nth(BlockStarts(stripped), k)].alignment

\* a group of two paragraphs of different alignments has the first one's
C18_Witness ==
    /\ pc = "grouped"
    /\ Separators(stripped) # {}
    /\ \E k \in 1..Len(grouped) :
          LET s == Nth(BlockStarts(stripped), k)
          IN  /\ s < Len(stripped)
              /\ ~stripped[s + 1].is_empty
              /\ stripped[s + 1].alignment # stripped[s].alignment
              /\ grouped[k].alignment = stripped[s].alignment

\* the caller gave an output path whose extension is not .txt (in any case)
WrongExtension ==
    /\ output_path # NoPath
    /\ lower(suffix(output_path)) # <<".", "t", "x", "t">>

\* C19: for every output path given by the caller whose extension is not
\* .txt, the conversion raises the ValueError of the output path check and
\* does not convert: nothing is rendered and no file is written.
C19_WrongExtensionRaises ==
    WrongExtension =>
        /\ pc \notin {"render", "built", "done"}
        /\ jsx_output = <<>>
        /\ written = <<>>

\* C20: when the output path has a wrong extension, the error of the output
\* path check is raised before the document is opened or read and before
\* extract, strip and group run.
C20_FailFast ==
    WrongExtension =>
        /\ pc \in {"start", "raised"}
        /\ document = <<>>
        /\ loaded = <<>> /\ stripped = <<>> /\ grouped = <<>>
        /\ pc = "raised" => error = "ValueError"

\* C21: an invocation that fails (missing input, unreadable document,
\* refused output path) has written nothing, and the output file is written
\* at most once, only when the whole string jsx_output has been computed,
\* with that string as its data.
C21_NoPartialOutput ==
    /\ (pc = "raised" \/ error # "") => written = <<>>
    /\ docx_state # "ok" => written = <<>>
    /\ Len(written) <= 1
    /\ pc = "done" => Len(written) = 1
    /\ written # <<>> =>
          /\ pc = "done"
          /\ error = ""
          /\ idx > Len(grouped)
          /\ written[1].data = jsx_output
          /\ Len(jsx_output) >= 2
    /\ pc \in {"start", "opened", "loaded", "stripped", "grouped", "render", "built"}
          => written = <<>>

\* an output path was refused after the document had been read and
\* transformed, and nothing has been written
C21_Witness ==
    /\ pc = "raised"
    /\ error = "ValueError"
    /\ loaded # <<>>
    /\ grouped # <<>>
    /\ written = <<>>

\* t is s without its leading and trailing whitespace
IsTrimOf(t, s) ==
    /\ t = <<>> \/ (Head(t) \notin Whitespace /\ t[Len(t)] \notin Whitespace)
    /\ \E i \in 1..(Len(s) + 1) :
          /\ Len(t) <= Len(s) - i + 1
          /\ t = SubSeq(s, i, i + Len(t) - 1)
          /\ \A k \in 1..Len(s) : (k < i \/ k >= i + Len(t)) => s[k] \in Whitespace

\* C27: in every group the runs of the first member are inserted as they
\* are, and every run of a later member is inserted with its own text
\* trimmed of leading and trailing whitespace and its flags kept.
C27_LaterMembersTrimmed ==
    (pc = "grouped" /\ Separators(stripped) # {}) =>
        \A k \in 1..Len(grouped) :
            LET s == Nth(BlockStarts(stripped), k)
                e == BlockEnd(stripped, s)
            IN  /\ SubSeq(grouped[k].runs, 1, Len(stripped[s].runs)) = stripped[s].runs
                /\ \A m \in (s + 1)..e : \A r \in 1..Len(stripped[m].runs) :
                      LET g == grouped[k].runs[MemberOffset(stripped, s, m) + r]
                          run == stripped[m].runs[r]
                      IN  /\ IsTrimOf(g.text, run.text)
                          /\ g.bold = run.bold
                          /\ g.italic = run.italic

\* a later member had a run ending in whitespace, a first member too
C27_Witness ==
    /\ pc = "grouped"
    /\ Separators(stripped) # {}
    /\ \E k \in 1..Len(grouped) :
          LET s == Nth(BlockStarts(stripped), k)
          IN  /\ BlockEnd(stripped, s) > s
              /\ stripped[s].runs # <<>>
              /\ stripped[s].runs[1].text # strip(stripped[s].runs[1].text)
              /\ grouped[k].runs[1].text = stripped[s].runs[1].text
              /\ stripped[s + 1].runs[1].text # strip(stripped[s + 1].runs[1].text)
              /\ grouped[k].runs[MemberOffset(stripped, s, s + 1) + 1].text
                     = strip(stripped[s + 1].runs[1].text)

\* the runs of paragraphs s..e of content are all bold / all italic
AllMembersBold(content, s, e) ==
    \A m \in s..e : \A r \in 1..Len(content[m].runs) : content[m].runs[r].bold
AllMembersItalic(content, s, e) ==
    \A m \in s..e : \A r \in 1..Len(content[m].runs) : content[m].runs[r].italic

\* the body of a rendered element
BodyOf(element) == SubSeq(element, 6, Len(element) - 1)

\* C28: a group of two or more members has the paragraph style "normal",
\* because of its line-break runs, also when every run of every member is
\* bold (or italic); the members' runs then carry <b> (or <em>) tags.
C28_GroupStyleNormal ==
    (pc = "built" /\ Separators(stripped) # {}) =>
        \A k \in 1..Len(grouped) :
            LET s == Nth(BlockStarts(stripped), k)
                e == BlockEnd(stripped, s)
            IN  e > s =>
                    /\ _get_paragraph_font_style(grouped[k].runs) = "normal"
                    /\ jsx_paragraphs[k][2] = "normal"
                    /\ AllMembersBold(stripped, s, e)
                           => Occurrences(BOpen, BodyOf(jsx_paragraphs[k])) > 0
                    /\ AllMembersItalic(stripped, s, e)
                           => Occurrences(EmOpen, BodyOf(jsx_paragraphs[k])) > 0

\* a group of two members whose runs are all bold has been rendered
C28_Witness ==
    /\ pc = "built"
    /\ Separators(stripped) # {}
    /\ \E k \in 1..Len(grouped) :
          LET s == Nth(BlockStarts(stripped), k)
              e == BlockEnd(stripped, s)
          IN  /\ e > s
              /\ AllMembersBold(stripped, s, e)
              /\ jsx_paragraphs[k][2] = "normal"
              /\ Occurrences(BOpen, BodyOf(jsx_paragraphs[k])) > 0

\* the normalized texts of the runs rs, one after the other
NormalizedTexts(rs) == join([k \in 1..Len(rs) |-> _normalize_symbols(rs[k].text)])

\* the parts consume the runs rs: each part, without its tags, is the
\* normalized texts of the next one or more runs, and no run is left over
RECURSIVE Consumes(_, _)
Consumes(parts, rs) ==
    IF parts = <<>> THEN rs = <<>>
    ELSE \E n \in 1..Len(rs) :
            /\ Untagged(Head(parts)) = NormalizedTexts(SubSeq(rs, 1, n))
            /\ Consumes(Tail(parts), SubSeq(rs, n + 1, Len(rs)))

\* C29: _process_paragraph_text loses and duplicates no text: the empty
\* run list gives the empty string, every run is consumed by exactly one
\* merged part, and the body without the inserted <em>, </em>, <b>, </b>
\* tags is the normalized texts of all runs in order.
C29_NoTextLostOrDuplicated ==
    (pc = "processed") =>
        /\ runs = <<>> => (merged_parts = <<>> /\ processed_text = <<>>)
        /\ processed_text = join(merged_parts)
        /\ Len(merged_parts) <= Len(runs)
        /\ Consumes(merged_parts, runs)
        /\ Untagged(processed_text) = NormalizedTexts(runs)

\* three runs have been rendered as two parts, one of them of two runs
C29_Witness ==
    /\ pc = "processed"
    /\ Len(runs) = 3
    /\ Len(merged_parts) = 2
    /\ \A k \in 1..3 : runs[k].text \in {<<"A">>, <<"B">>, <<"&">>}
    /\ Untagged(processed_text) = NormalizedTexts(runs)

\* the objects now and when the latest stage was called
ObjectsNow == [runs |-> run_objects, lists |-> run_lists]

\* a stage has been called on objects in memory
StageReturned == pc \in {"heap_stripped", "heap_grouped", "heap_rendered"}

\* the identities of the runs / run lists the latest stage received
InputRuns == 1..Len(objects_at_call.runs)
InputLists == 1..Len(objects_at_call.lists)

\* C22: strip, group and render do not mutate their input: after each
\* stage every run dict and every run list that existed when the stage
\* was called is unchanged, so the input content still has the same value;
\* the grouper puts the trimmed texts on new runs in new lists, and shares
\* only the untouched runs of each first member.
C22_InputsNotMutated ==
    StageReturned =>
        /\ Len(run_objects) >= Len(objects_at_call.runs)
        /\ Len(run_lists) >= Len(objects_at_call.lists)
        /\ \A id \in InputRuns : run_objects[id] = objects_at_call.runs[id]
        /\ \A id \in InputLists : run_lists[id] = objects_at_call.lists[id]
        /\ content_of(ObjectsNow, input_refs) = content_of(objects_at_call, input_refs)
        /\ pc = "heap_stripped" =>
              content_of(ObjectsNow, result_refs)
                  = _strip_content_before_date(content_of(objects_at_call, input_refs))
        /\ pc = "heap_grouped" =>
              /\ content_of(ObjectsNow, result_refs)
                     = _group_consecutive_paragraphs(content_of(objects_at_call, input_refs))
              /\ Separators(input_refs) # {} =>
                    \A k \in 1..Len(result_refs) :
                        /\ result_refs[k].runs \notin InputLists
                        /\ \A r \in 1..Len(run_lists[result_refs[k].runs]) :
                              LET id == run_lists[result_refs[k].runs][r]
                              IN  id \in InputRuns
                                      => run_objects[id].text = objects_at_call.runs[id].text

\* the grouper has trimmed the text of a later member's run, on a copy
C22_Witness ==
    /\ pc = "heap_grouped"
    /\ Separators(input_refs) # {}
    /\ \E m \in 2..Len(input_refs) :
          /\ ~input_refs[m].is_empty
          /\ ~input_refs[m - 1].is_empty
          /\ \E r \in 1..Len(run_lists[input_refs[m].runs]) :
                LET original == run_lists[input_refs[m].runs][r]
                IN  /\ run_objects[original].text # strip(run_objects[original].text)
                    /\ \E copy \in (Len(objects_at_call.runs) + 1)..Len(run_objects) :
                          run_objects[copy].text = strip(run_objects[original].text)

\* the latest ImageFile call was a resize that returned
ResizeReturned == image_call.method = "resize" /\ image_call.raised = ""

\* stored is the image the latest resize call was to produce: the given
\* size, or with keep_aspect a size inside the box and inside the image,
\* touching the box unless the image already fitted
IsResized(stored) ==
    LET box == image_call.size
        before == image_call.image_before
    IN  IF ~image_call.keep_aspect THEN stored = box
        ELSE /\ stored[1] <= box[1] /\ stored[2] <= box[2]
             /\ stored[1] <= before[1] /\ stored[2] <= before[2]
             /\ stored[1] >= 1 /\ stored[2] >= 1
             /\ IF before[1] <= box[1] /\ before[2] <= box[2] THEN stored = before
                ELSE stored[1] = box[1] \/ stored[2] = box[2]

\* C23: after resize(w, h, output_path=P) with P another path of the
\* source's extension, image.path is unchanged, the file at image.path has
\* its content of before, the resized image is at P and the image in memory
\* is the one stored at image.path again, also with keep_aspect; with no
\* output_path the file at image.path holds the resized image and the image
\* in memory has its dimensions.
C23_ResizeFrame ==
    ResizeReturned =>
        LET P == image_call.out_path
            source == image_call.path_before
        IN  /\ image_path = source
            /\ (P # NoPath /\ P # source) =>
                  /\ lower(suffix(P)) = lower(suffix(source))
                  /\ image_files[source] = image_call.files_before[source]
                  /\ P \in DOMAIN image_files
                  /\ IsResized(image_files[P])
                  /\ image = image_call.files_before[source]
                  /\ \A other \in DOMAIN image_call.files_before :
                        other # P => image_files[other] = image_call.files_before[other]
            /\ P = NoPath =>
                  /\ IsResized(image_files[source])
                  /\ image = image_files[source]
                  /\ DOMAIN image_files = DOMAIN image_call.files_before

\* a resize with keep_aspect to another path has shrunk the image there
\* and left the source and the image in memory as they were
C23_Witness ==
    /\ ResizeReturned
    /\ image_call.keep_aspect
    /\ image_call.out_path = <<"b", ".", "p", "n", "g">>
    /\ image_call.image_before = <<4, 2>>
    /\ image_files[image_call.out_path] = <<2, 1>>
    /\ image_files[image_path] = <<4, 2>>
    /\ image = <<4, 2>>

\* the latest call had to raise ValueError for its output path's extension
ExtensionError ==
    \/ /\ image_call.method = "resize"
       /\ image_call.out_path # NoPath
       /\ lower(suffix(image_call.out_path)) # lower(suffix(image_call.path_before))
    \/ /\ image_call.method = "save"
       /\ image_call.out_path # NoPath
       /\ lower(suffix(image_call.out_path)) \notin SUPPORTED_IMAGE_EXTENSIONS

\* C24: resize with an output path of another extension than the source's
\* and save with an output path of an unsupported extension raise
\* ValueError, and a call that raises ValueError leaves image.path, the
\* image in memory and every file as they were.
C24_ExtensionErrorFrame ==
    /\ ExtensionError => image_call.raised = "ValueError"
    /\ (pc = "image" /\ image_call.raised = "ValueError") =>
          /\ image_path = image_call.path_before
          /\ image = image_call.image_before
          /\ image_files = image_call.files_before

\* a resize to b.jpg of a png source raised ValueError; the size asked for
\* was not the image's
C24_Witness ==
    /\ image_call.method = "resize"
    /\ image_call.out_path = <<"b", ".", "j", "p", "g">>
    /\ image_call.raised = "ValueError"
    /\ image_call.size # image_call.image_before
    /\ image = image_call.image_before
    /\ image_files = image_call.files_before

\* C30: after any sequence of resize, convert_format and save calls,
\* returned or raised, the image in memory is the image stored in the file
\* at image.path.
C30_ImageMatchesFile ==
    pc = "image" => image = image_files[image_path]

\* the latest File call was a rename / a move that returned
RenameReturned == file_call.method = "rename" /\ file_call.raised = ""
MoveReturned == file_call.method = "move" /\ file_call.raised = ""

\* the name the docstring of rename gives the file: new_name when it has
\* an extension, else new_name with the file's extension
DocumentedName ==
    IF suffix(file_call.argument) # <<>> THEN file_call.argument
    ELSE file_call.argument \o suffix(name_of(file_call.path_before))

\* C25: rename(new_name) keeps the file in its directory; a new_name
\* without the file's extension gets the extension appended, and a
\* new_name with another extension is the file's name as it is.
C25_RenameAsDocumented ==
    RenameReturned =>
        /\ parent_of(file_path) = parent_of(file_call.path_before)
        /\ name_of(file_path) = DocumentedName
        /\ file_path \in DOMAIN fs_files
        /\ fs_files[file_path] = file_call.files_before[file_call.path_before]

\* C26: after move(destination) returns, self.path is where the moved file
\* is: the destination when it is a file path, the file of the original
\* name inside the destination when it is an existing directory.
C26_PathFollowsMove ==
    MoveReturned =>
        /\ file_path \in DOMAIN fs_files
        /\ fs_files[file_path] = file_call.files_before[file_call.path_before]
        /\ file_path = IF is_dir(file_call.argument)
                       THEN joinpath(file_call.argument, name_of(file_call.path_before))
                       ELSE file_call.argument

====
